---- MODULE Spec2Model ----
\* Export Component Metadata (Figma plugin backend, src/code.ts, second file of
\* the concatenation: lines 487-1524).  Three state machines share this module:
\*   SpecCollect  - the Property Collector and its ordering heuristic
\*   SpecResolve  - the Identifier Resolver (withTimeout, resolveSwapName,
\*                  resolvePreferredInstanceNames) against a logical clock
\*   Spec         - the message handlers (figma.ui.onmessage, selectionchange)
\*                  interleaved at their host suspension points
EXTENDS Integers, Sequences, FiniteSets, TLC

VARIABLES
    \* ---- Property Collector ----
    node,        \* the node handed to the collector (input)
    collected,   \* { defs, order } returned by the collector
    \* ---- Identifier Resolver ----
    now,         \* logical clock, ms
    job,         \* the references being resolved and by which function
    rpc,         \* "idle" | "await" | "done"
    idx,         \* 1-based position in job.refs of the entry being resolved
    names,       \* names[] accumulated so far
    timer,       \* the setTimeout of the current withTimeout call
    lookups,     \* the figma.getNodeByIdAsync promises issued so far
    entryLog,    \* per entry: when it was issued and settled, and how
    result,      \* value returned to the caller
    \* ---- Message handlers ----
    busy,        \* __busy
    scanAllowed, \* __scanAllowed
    scanCache,   \* __exportScanCache
    scanFormat,  \* __exportScanFormat
    doc,         \* component sets of the document, in findAll order
    failing,     \* sets whose generation raises
    selection,   \* what the current selection resolves to (0: nothing)
    hs,          \* handler slot -> activation record
    posted,      \* handler slot -> messages posted to the UI by that activation
    scans,       \* handler slot -> scanAllowed at each findAll of that activation
    nreq,        \* requests received so far
    \* ---- Target resolver ----
    scene,       \* figma.currentPage.selection: per selected node its chain of ancestors
    walk,        \* the running resolveFromSelectionAsync call
    \* ---- Renderer ----
    render       \* the documents returned by toMarkdownTarget / toJSONSummaryTarget so far

collectVars == <<node, collected>>
resolveVars == <<now, job, rpc, idx, names, timer, lookups, entryLog, result>>
handlerVars == <<busy, scanAllowed, scanCache, scanFormat, doc, failing, selection,
                 hs, posted, scans, nreq>>
targetVars == <<scene, walk>>
renderVars == <<render>>
vars == <<collectVars, resolveVars, handlerVars, targetVars, renderVars>>

\* ------------------------------------------------------------------ bounds

MaxKeys == 3
MaxMembers == 2
MaxMemberKeys == 2
MaxRefs == 2
MaxTime == 1500
TickMs == 300
MaxSets == 2
MaxTargets == 3
MaxHandlers == 2
MaxRequests == 2
MaxNodes == 3

\* ------------------------------------------------------------ JS strings
\* A string is the sequence of its characters.

Min(a, b) == IF a < b THEN a ELSE b

\* String.prototype.indexOf(c): 0-based index of the first c, or -1
IndexFrom(s, c, i) ==
    LET hits == {k \in i..Len(s) : s[k] = c}
    IN  IF hits = {} THEN -1
        ELSE (CHOOSE k \in hits : \A j \in hits : k <= j) - 1

IndexOf(s, c) == IndexFrom(s, c, 1)

\* String.prototype.slice(a, b) and slice(a) for 0 <= a <= b
Slice(s, a, b) == SubSeq(s, a + 1, Min(b, Len(s)))

SliceFrom(s, a) == SubSeq(s, a + 1, Len(s))

HasPrefix == <<"H", "a", "s", " ">>

cleanPropName(key) ==
    LET i == IndexOf(key, "#")
    IN  IF i >= 0 THEN Slice(key, 0, i) ELSE key

\* ------------------------------------------------------------- JS values

Undefined == [t |-> "undefined"]
JsBool(b) == [t |-> "boolean", v |-> b]
JsString(s) == [t |-> "string", v |-> s]
JsNumber(n) == [t |-> "number", v |-> n]
JsArray(a) == [t |-> "array", v |-> a]
JsNull == [t |-> "null"]
JsObject(f, s) == [t |-> "object", field |-> f, v |-> s]

IsArray(x) == x.t = "array"

\* --------------------------------------------------- raw host definitions
\* A componentPropertyDefinitions object is the sequence of its entries in
\* Object.keys order; keys are distinct.  A missing object is NoDefs.

NoDefs == [t |-> "undefined"]
DefsObject(entries) == [t |-> "object", entries |-> entries]

KeyX == <<"X">>
KeyHasX == <<"H", "a", "s", " ", "X">>
KeyHasHasX == <<"H", "a", "s", " ", "H", "a", "s", " ", "X">>
KeyX1 == <<"X", "#", "1">>
KeyHasX2 == <<"H", "a", "s", " ", "X", "#", "2">>
KeyA == <<"A">>

KeyPool == {KeyX, KeyHasX, KeyHasHasX, KeyX1, KeyHasX2, KeyA}

LegacyKeyPool == {KeyX, KeyHasX, KeyA}

\* What the host can put under one key.  'defaultValue' in d is hasDefault;
\* for a VARIANT the host does supply a defaultValue and variantOptions.
RawShapes == {
    [type |-> "BOOLEAN", hasDefault |-> TRUE, defaultValue |-> JsBool(TRUE),
     hasPreferred |-> FALSE, preferredValues |-> Undefined, variantOptions |-> Undefined],
    [type |-> "TEXT", hasDefault |-> TRUE, defaultValue |-> JsString(<<"t">>),
     hasPreferred |-> FALSE, preferredValues |-> Undefined, variantOptions |-> Undefined],
    [type |-> "NUMBER", hasDefault |-> FALSE, defaultValue |-> Undefined,
     hasPreferred |-> FALSE, preferredValues |-> Undefined, variantOptions |-> Undefined],
    [type |-> "INSTANCE_SWAP", hasDefault |-> TRUE, defaultValue |-> JsString(<<"1">>),
     hasPreferred |-> TRUE, preferredValues |-> JsArray(<<JsString(<<"2">>)>>),
     variantOptions |-> Undefined],
    [type |-> "VARIANT", hasDefault |-> TRUE, defaultValue |-> JsString(<<"L">>),
     hasPreferred |-> FALSE, preferredValues |-> Undefined,
     variantOptions |-> JsArray(<<<<"L">>, <<"M">>>>)] }

LegacyShapes == {r \in RawShapes : r.type \in {"BOOLEAN", "VARIANT"}}

RawDef(k, r) ==
    [key |-> k, type |-> r.type, hasDefault |-> r.hasDefault,
     defaultValue |-> r.defaultValue, hasPreferred |-> r.hasPreferred,
     preferredValues |-> r.preferredValues, variantOptions |-> r.variantOptions]

\* all definition objects with at most n keys drawn from pool
DefsOver(pool, shapes, n) ==
    UNION { { d \in [1..m -> {RawDef(k, r) : k \in pool, r \in shapes}] :
                \A i, j \in 1..m : i # j => d[i].key # d[j].key } : m \in 0..n }

KeysOf(defs) == {defs[i].key : i \in 1..Len(defs)}

\* defs[key]
Lookup(defs, key) == defs[CHOOSE i \in 1..Len(defs) : defs[i].key = key]

\* ------------------------------------------------------ ordering heuristic
\* rawKeys.map(k => ({ key, type, name: cleanPropName(k) }))
Items(defs) ==
    [i \in 1..Len(defs) |->
        [key |-> defs[i].key, type |-> defs[i].type, name |-> cleanPropName(defs[i].key)]]

\* items.filter(i => i.type === 'VARIANT') when variant, i.type !== 'VARIANT' otherwise
RECURSIVE FilterItems(_, _)
FilterItems(items, variant) ==
    IF items = <<>> THEN <<>>
    ELSE (IF (Head(items).type = "VARIANT") = variant THEN <<Head(items)>> ELSE <<>>)
         \o FilterItems(Tail(items), variant)

VariantKeys(items) ==
    LET vs == FilterItems(items, TRUE)
    IN  [i \in 1..Len(vs) |-> vs[i].key]

\* mutant: the keys of the other kinds are taken from the last to the first
OthersReversed(items) ==
    LET os == FilterItems(items, FALSE)
    IN  [i \in 1..Len(os) |-> os[Len(os) + 1 - i]]

Others(items) == FilterItems(items, FALSE)

\* Map.prototype.set: the map is a function from the names set so far
MapSet(m, k, v) == [n \in DOMAIN m \cup {k} |-> IF n = k THEN v ELSE m[n]]

\* for (const it of others) if (it.name.slice(0,4) === 'Has ') hasMap.set(it.name.slice(4), it.key)
RECURSIVE BuildHasMap(_, _)
BuildHasMap(others, m) ==
    IF others = <<>> THEN m
    ELSE LET it == Head(others)
         IN  BuildHasMap(Tail(others),
                 IF Slice(it.name, 0, 4) = HasPrefix
                 THEN MapSet(m, SliceFrom(it.name, 4), it.key)
                 ELSE m)

EmptyMap == [n \in {} |-> <<>>]

\* the loop over others that fills orderedOthers
RECURSIVE OrderLoop(_, _, _, _)
OrderLoop(others, hasMap, taken, orderedOthers) ==
    IF others = <<>> THEN orderedOthers
    ELSE LET it == Head(others)
         IN  IF it.key \in taken
             THEN OrderLoop(Tail(others), hasMap, taken, orderedOthers)
             ELSE LET paired == /\ it.name \in DOMAIN hasMap
                                /\ hasMap[it.name] # <<>>
                                /\ hasMap[it.name] \notin taken
                      pre == IF paired THEN <<hasMap[it.name]>> ELSE <<>>
                      tk == IF paired THEN taken \cup {hasMap[it.name]} ELSE taken
                  IN  OrderLoop(Tail(others), hasMap, tk \cup {it.key},
                                orderedOthers \o pre \o <<it.key>>)

\* mutant: the paired key is pushed without being marked taken
RECURSIVE OrderLoopNoTaken(_, _, _, _)
OrderLoopNoTaken(others, hasMap, taken, orderedOthers) ==
    IF others = <<>> THEN orderedOthers
    ELSE LET it == Head(others)
         IN  IF it.key \in taken
             THEN OrderLoopNoTaken(Tail(others), hasMap, taken, orderedOthers)
             ELSE LET paired == /\ it.name \in DOMAIN hasMap
                                /\ hasMap[it.name] # <<>>
                                /\ hasMap[it.name] \notin taken
                      pre == IF paired THEN <<hasMap[it.name]>> ELSE <<>>
                  IN  OrderLoopNoTaken(Tail(others), hasMap, taken \cup {it.key},
                                       orderedOthers \o pre \o <<it.key>>)

HeuristicKeysNoTaken(defs) ==
    LET items == Items(defs)
        others == Others(items)
    IN  VariantKeys(items) \o OrderLoopNoTaken(others, BuildHasMap(others, EmptyMap), {}, <<>>)

\* const keys = variantKeys.concat(orderedOthers)
HeuristicKeys(defs) ==
    LET items == Items(defs)
        others == Others(items)
    IN  VariantKeys(items) \o OrderLoop(others, BuildHasMap(others, EmptyMap), {}, <<>>)

\* ------------------------------------------------------ Property Collector

PropDefLite(d, defaultValue, variantOptions) ==
    [name |-> cleanPropName(d.key),
     type |-> d.type,
     defaultValue |-> defaultValue,
     preferredValuesCount |->
         IF d.hasPreferred /\ IsArray(d.preferredValues)
         THEN JsNumber(Len(d.preferredValues.v)) ELSE Undefined,
     preferredValuesRaw |->
         IF d.hasPreferred /\ IsArray(d.preferredValues)
         THEN d.preferredValues ELSE Undefined,
     preferredInstanceNames |-> Undefined,
     variantOptions |-> variantOptions]

\* mutant: the default of a VARIANT definition is kept
DefDefaultValueKept(d) == IF d.hasDefault THEN d.defaultValue ELSE Undefined

\* if ('defaultValue' in d) ...; if (type === 'VARIANT') defDefaultValue = undefined
DefDefaultValue(d) ==
    IF d.type = "VARIANT" THEN Undefined
    ELSE IF d.hasDefault THEN d.defaultValue
    ELSE Undefined

\* the entry written to out[key] on the set-level and legacy paths
SetProp(d) ==
    PropDefLite(d, DefDefaultValue(d),
        IF d.type = "VARIANT" /\ IsArray(d.variantOptions) THEN d.variantOptions ELSE Undefined)

\* the entry written to out[key] by collectPropsFromComponent
ComponentProp(d) ==
    PropDefLite(d, DefDefaultValue(d),
        IF IsArray(d.variantOptions) THEN d.variantOptions ELSE Undefined)

NoResult == [defs |-> EmptyMap, order |-> <<>>]

collectPropsFromComponent(comp) ==
    LET cpd == comp.componentPropertyDefinitions
        defs == cpd.entries
    IN  IF cpd.t = "undefined" THEN NoResult
        ELSE LET keys == HeuristicKeys(defs)
             IN  [defs |-> [k \in {keys[i] : i \in 1..Len(keys)} |-> ComponentProp(Lookup(defs, k))],
                  order |-> keys]

\* mutant: a later member's definition of a key replaces the one kept
RECURSIVE MergeKeysLastWins(_, _, _)
MergeKeysLastWins(keys, defs, acc) ==
    IF keys = <<>> THEN acc
    ELSE LET key == Head(keys)
             d == Lookup(defs, key)
             order1 == IF key \notin acc.seen THEN Append(acc.order, key) ELSE acc.order
         IN  MergeKeysLastWins(Tail(keys), defs,
                 [seen |-> acc.seen \cup {key}, order |-> order1,
                  out |-> MapSet(acc.out, key, SetProp(d))])

\* one pass of the inner loop "for (const key of keys)" of the legacy fallback
RECURSIVE MergeKeys(_, _, _)
MergeKeys(keys, defs, acc) ==
    IF keys = <<>> THEN acc
    ELSE LET key == Head(keys)
             d == Lookup(defs, key)
             order1 == IF key \notin acc.seen THEN Append(acc.order, key) ELSE acc.order
             out1 == IF key \notin DOMAIN acc.out
                     THEN MapSet(acc.out, key, SetProp(d)) ELSE acc.out
         IN  MergeKeys(Tail(keys), defs,
                       [seen |-> acc.seen \cup {key}, order |-> order1, out |-> out1])

\* the outer loop "for (const c of comps)" of the legacy fallback
RECURSIVE MergeMembers(_, _)
MergeMembers(comps, acc) ==
    IF comps = <<>> THEN acc
    ELSE LET cpd == Head(comps).componentPropertyDefinitions
             defs == cpd.entries
         IN  MergeMembers(Tail(comps),
                 IF cpd.t = "undefined" THEN acc
                 ELSE MergeKeys(HeuristicKeys(defs), defs, acc))

\* set.children.filter(n => n.type === 'COMPONENT')
ComponentChildren(children) == SelectSeq(children, LAMBDA n : n.type = "COMPONENT")

collectComponentPropsWithOrder(set) ==
    LET cpd == set.componentPropertyDefinitions
        defsSet == cpd.entries
    IN  IF cpd.t # "undefined"
        THEN LET keys == HeuristicKeys(defsSet)
             IN  [defs |-> [k \in {keys[i] : i \in 1..Len(keys)} |-> SetProp(Lookup(defsSet, k))],
                  order |-> keys]
        ELSE LET acc == MergeMembers(ComponentChildren(set.children),
                                     [seen |-> {}, order |-> <<>>, out |-> EmptyMap])
             IN  [defs |-> acc.out, order |-> acc.order]

\* ---------------------------------------------- SpecCollect: state machine

NoNode == [type |-> "NONE", componentPropertyDefinitions |-> NoDefs, children |-> <<>>]

ComponentNode(defs) ==
    [type |-> "COMPONENT", componentPropertyDefinitions |-> defs, children |-> <<>>]

ComponentSetNode(defs, children) ==
    [type |-> "COMPONENT_SET", componentPropertyDefinitions |-> defs, children |-> children]

MemberDefs ==
    {DefsObject(d) : d \in DefsOver(LegacyKeyPool, LegacyShapes, MaxMemberKeys)} \cup {NoDefs}

\* members whose definitions share two keys, so that members disagree on a key
MergeKeyPool == {KeyX, KeyHasX}

MergeDefs ==
    {DefsObject(d) : d \in DefsOver(MergeKeyPool, LegacyShapes, MaxMemberKeys)} \cup {NoDefs}

NoTimer == [armed |-> FALSE, deadline |-> 0]

ResolveIdle ==
    /\ now = 0 /\ job = [kind |-> "none", arg |-> Undefined] /\ rpc = "idle" /\ idx = 0
    /\ names = <<>> /\ timer = NoTimer
    /\ lookups = <<>> /\ entryLog = <<>> /\ result = Undefined

HandlersIdle ==
    /\ busy = FALSE /\ scanAllowed = FALSE /\ scanCache = <<>> /\ scanFormat = "null"
    /\ doc = <<>> /\ failing = {} /\ selection = 0
    /\ hs = <<>> /\ posted = <<>> /\ scans = <<>> /\ nreq = 0

\* { set: null, component: null }
NoTarget == [kind |-> "none", n |-> 0, pos |-> 0, rel |-> "self"]

NoWalk == [pc |-> "idle", n |-> 0, pos |-> 0, visited |-> <<>>, results |-> <<>>,
           result |-> NoTarget]

TargetIdle == scene = <<>> /\ walk = NoWalk

\* no document rendered yet
RenderIdle == render = [md |-> <<>>, json |-> <<>>]

CollectIdle == node = NoNode /\ collected = NoResult

InitCollect == CollectIdle /\ ResolveIdle /\ HandlersIdle /\ TargetIdle /\ RenderIdle

\* toMarkdownTarget / toJSONSummaryTarget / sendSelectionInfoAsync on a set
\* that exposes set-level definitions
CollectSet ==
    /\ node = NoNode
    /\ \E defs \in DefsOver(KeyPool, RawShapes, MaxKeys) :
          /\ node' = ComponentSetNode(DefsObject(defs), <<>>)
          /\ collected' = collectComponentPropsWithOrder(node')
    /\ UNCHANGED <<resolveVars, handlerVars, targetVars, renderVars>>

\* the same on a legacy set: no set-level definitions, members carry them
CollectLegacy ==
    /\ node = NoNode
    /\ \E m \in 0..MaxMembers :
          \E members \in [1..m -> MemberDefs] :
             /\ node' = ComponentSetNode(NoDefs, [i \in 1..m |-> ComponentNode(members[i])])
             /\ collected' = collectComponentPropsWithOrder(node')
    /\ UNCHANGED <<resolveVars, handlerVars, targetVars, renderVars>>

\* the legacy fallback on members that define the same keys
CollectMerge ==
    /\ node = NoNode
    /\ \E m \in 0..MaxMembers :
          \E members \in [1..m -> MergeDefs] :
             /\ node' = ComponentSetNode(NoDefs, [i \in 1..m |-> ComponentNode(members[i])])
             /\ collected' = collectComponentPropsWithOrder(node')
    /\ UNCHANGED <<resolveVars, handlerVars, targetVars, renderVars>>

\* the same on a single component
CollectSingle ==
    /\ node = NoNode
    /\ \E cpd \in {DefsObject(d) : d \in DefsOver(KeyPool, RawShapes, MaxKeys)} \cup {NoDefs} :
          /\ node' = ComponentNode(cpd)
          /\ collected' = collectPropsFromComponent(node')
    /\ UNCHANGED <<resolveVars, handlerVars, targetVars, renderVars>>

NextCollect == CollectSet \/ CollectSingle

SpecCollect == InitCollect /\ [][NextCollect]_vars

\* the legacy fallback on its own
NextLegacy == CollectLegacy

SpecLegacy == InitCollect /\ [][NextLegacy]_vars

NextMerge == CollectMerge

SpecMerge == InitCollect /\ [][NextMerge]_vars

\* ---------------------------------------------------- SpecCollect: claims

InputEntries == node.componentPropertyDefinitions.entries

\* the collector ran on definitions handed to it directly (set-level or single)
DirectPath ==
    /\ node.type \in {"COMPONENT_SET", "COMPONENT"}
    /\ node.componentPropertyDefinitions.t = "object"

LegacyPath ==
    /\ node.type = "COMPONENT_SET"
    /\ node.componentPropertyDefinitions.t = "undefined"

OrderKeys == {collected.order[i] : i \in 1..Len(collected.order)}

Pos(k) == CHOOSE i \in 1..Len(collected.order) : collected.order[i] = k

KindOf(k) == collected.defs[k].type

\* C1 (key completeness): on the set-level path and on the single-component
\* path the produced order holds every key of the input map exactly once and
\* nothing else, and the returned definitions have exactly the same key set.
C1_KeyCompleteness ==
    DirectPath =>
        /\ OrderKeys = KeysOf(InputEntries)
        /\ Len(collected.order) = Len(InputEntries)
        /\ \A i, j \in 1..Len(collected.order) :
              i # j => collected.order[i] # collected.order[j]
        /\ DOMAIN collected.defs = KeysOf(InputEntries)

\* C1 witness: three keys, two of them sharing a display name, one of them a
\* "Has " key that the heuristic pulled forward
C1_Witness ==
    /\ DirectPath
    /\ Len(InputEntries) = 3
    /\ \E i, j \in 1..3 :
          /\ i # j
          /\ cleanPropName(InputEntries[i].key) = cleanPropName(InputEntries[j].key)
    /\ \E i \in 1..3 : InputEntries[i].key # collected.order[i]
    /\ Len(collected.order) = 3

\* C2 (variant precedence): in every produced order no key of another kind
\* comes before a key of kind VARIANT.
C2_VariantPrecedence ==
    \A i, j \in 1..Len(collected.order) :
        (i < j /\ KindOf(collected.order[j]) = "VARIANT")
            => KindOf(collected.order[i]) = "VARIANT"

\* C3 (Has-pairing): whenever the input holds a BOOLEAN key named "Has X" and
\* a key named "X", the former is immediately before the latter in the order.
C3_HasPairing ==
    DirectPath =>
        \A a, b \in 1..Len(InputEntries) :
            LET kh == InputEntries[a].key
                kx == InputEntries[b].key
            IN  (/\ InputEntries[a].type = "BOOLEAN"
                 /\ cleanPropName(kh) = HasPrefix \o cleanPropName(kx))
                    => Pos(kh) + 1 = Pos(kx)

\* ------------------------------------------------------ Identifier Resolver

NODE_RESOLVE_TIMEOUT_MS == 600

\* The document behind figma.getNodeByIdAsync: nodes "1" and "3" are both
\* named "a", node "2" is named "b", node "4" has an empty name, "9" names
\* no node (the lookup yields null) and "8" is an id the host rejects at the
\* call itself (a synchronous throw).
NodeIds == {<<"1">>, <<"2">>, <<"3">>, <<"4">>}

NodeName(id) ==
    CASE id = <<"1">> -> <<"a">>
      [] id = <<"2">> -> <<"b">>
      [] id = <<"3">> -> <<"a">>
      [] OTHER -> <<>>

JsNode(id) == [t |-> "node", v |-> NodeName(id)]

\* the value getNodeByIdAsync(id) fulfils with, if it does
FoundNode(id) == IF id \in NodeIds THEN JsNode(id) ELSE JsNull

ThrowsSync(id) == id = <<"8">>

\* typeof id !== 'string' || !id
Malformed(id) == id.t # "string" \/ id.v = <<>>

\* if (typeof val === 'string') return val; obj.id / obj.value / obj.nodeId
extractNodeIdFromPreferred(val) ==
    IF val.t = "string" THEN val
    ELSE IF val.t = "object" /\ val.field \in {"id", "value", "nodeId"} THEN JsString(val.v)
    ELSE JsNull

\* mutant: a timer that is never armed (the race has one runner)
NeverArmed(t) == NoTimer

\* mutant: only the first lookup of a run is raced against a timer
TimerFirstOnly(t) == [armed |-> lookups = <<>>, deadline |-> t + NODE_RESOLVE_TIMEOUT_MS]

\* setTimeout(() => resolve(undefined), ms) issued at time t
withTimeoutTimer(t) == [armed |-> TRUE, deadline |-> t + NODE_RESOLVE_TIMEOUT_MS]

\* (node && 'name' in node) ? node.name : null
NameOf(v) == IF v.t = "node" THEN JsString(v.v) ELSE JsNull

\* a lookup is issued for entry i of refs: id valid and the call does not throw
Issues(refs, i) ==
    LET id == extractNodeIdFromPreferred(refs[i])
    IN  ~Malformed(id) /\ ~ThrowsSync(id.v)

\* the for loop of resolvePreferredInstanceNames from entry i on, up to the
\* first entry for which a lookup is awaited (Len + 1: the loop ends)
RECURSIVE NextIssue(_, _)
NextIssue(refs, i) ==
    IF i > Len(refs) THEN i
    ELSE IF Issues(refs, i) THEN i
    ELSE NextIssue(refs, i + 1)

NewLookup(id) == [id |-> id, state |-> "pending"]

NewEntry(i, t) == [ref |-> i, issuedAt |-> t, settledAt |-> -1, via |-> "pending"]

InSeq(x, sq) == \E i \in 1..Len(sq) : sq[i] = x

\* mutant: every name is pushed, seen is not consulted
PushNameUnseen(ns, name) ==
    IF name.t = "string" /\ name.v # <<>> THEN Append(ns, name.v) ELSE ns

\* if (name && !seen.has(name)) { seen.add(name); names.push(name); }
PushName(ns, name) ==
    IF name.t = "string" /\ name.v # <<>> /\ ~InSeq(name.v, ns)
    THEN Append(ns, name.v) ELSE ns

\* mutant: a rejected or thrown lookup escapes resolveSwapName
SwapEscapes == [rpc |-> "threw", result |-> Undefined]

\* catch { /* ignore lookup errors */ } return null
SwapCaught == [rpc |-> "done", result |-> JsNull]

\* resolveSwapName(id), up to its await
CallResolveSwapName(id) ==
    /\ rpc = "idle"
    /\ job' = [kind |-> "swap", arg |-> id]
    /\ IF Malformed(id)
       THEN /\ rpc' = "done" /\ result' = JsNull
            /\ UNCHANGED <<idx, timer, lookups, entryLog>>
       ELSE IF ThrowsSync(id.v)
       THEN /\ rpc' = SwapCaught.rpc /\ result' = SwapCaught.result
            /\ UNCHANGED <<idx, timer, lookups, entryLog>>
       ELSE /\ rpc' = "await" /\ idx' = 1
            /\ lookups' = Append(lookups, NewLookup(id.v))
            /\ entryLog' = Append(entryLog, NewEntry(1, now))
            /\ timer' = withTimeoutTimer(now)
            /\ UNCHANGED result
    /\ UNCHANGED <<now, names, collectVars, handlerVars, targetVars, renderVars>>

\* the loop of resolvePreferredInstanceNames continues at entry i
PreferredFrom(i, ns) ==
    LET refs == job'.arg.v
        j == NextIssue(refs, i)
    IN  /\ names' = ns
        /\ IF j <= Len(refs)
           THEN /\ rpc' = "await" /\ idx' = j
                /\ lookups' = Append(lookups, NewLookup(extractNodeIdFromPreferred(refs[j]).v))
                /\ entryLog' = Append(entryLog, NewEntry(j, now))
                /\ timer' = withTimeoutTimer(now)
                /\ UNCHANGED result
           ELSE /\ rpc' = "done" /\ idx' = j
                /\ result' = JsArray(ns)
                /\ timer' = NoTimer
                /\ UNCHANGED <<lookups, entryLog>>

\* resolvePreferredInstanceNames(pref), up to its first await
CallResolvePreferred(pref) ==
    /\ rpc = "idle"
    /\ job' = [kind |-> "preferred", arg |-> pref]
    /\ IF ~IsArray(pref)
       THEN /\ rpc' = "done" /\ result' = JsArray(<<>>)
            /\ UNCHANGED <<idx, names, timer, lookups, entryLog>>
       ELSE PreferredFrom(1, <<>>)
    /\ UNCHANGED <<now, collectVars, handlerVars, targetVars, renderVars>>

\* the awaited withTimeout promise settles with v: the caller resumes
Resume(v, how, lks) ==
    LET cur == Len(entryLog)
        log1 == [entryLog EXCEPT ![cur].settledAt = now, ![cur].via = how]
    IN  /\ UNCHANGED job
        /\ IF job.kind = "swap"
           THEN /\ rpc' = "done"
                /\ result' = NameOf(v)
                /\ timer' = NoTimer
                /\ lookups' = lks
                /\ entryLog' = log1
                /\ UNCHANGED <<idx, names>>
           ELSE LET refs == job.arg.v
                    ns == PushName(names, NameOf(v))
                    j == NextIssue(refs, idx + 1)
                IN  /\ names' = ns
                    /\ idx' = j
                    /\ IF j <= Len(refs)
                       THEN /\ rpc' = "await"
                            /\ lookups' = Append(lks, NewLookup(extractNodeIdFromPreferred(refs[j]).v))
                            /\ entryLog' = Append(log1, NewEntry(j, now))
                            /\ timer' = withTimeoutTimer(now)
                            /\ UNCHANGED result
                       ELSE /\ rpc' = "done"
                            /\ result' = JsArray(ns)
                            /\ timer' = NoTimer
                            /\ lookups' = lks
                            /\ entryLog' = log1

\* mutant: a completion resolves the wrapper that is awaited now, whichever
\* lookup it belongs to
HostFulfilsLate(i) ==
    /\ lookups[i].state = "pending"
    /\ LET lks == [lookups EXCEPT ![i].state = "fulfilled"]
       IN  IF rpc = "await"
           THEN Resume(FoundNode(lookups[i].id), "value", lks)
           ELSE /\ lookups' = lks
                /\ UNCHANGED <<job, rpc, idx, names, timer, entryLog, result>>
    /\ UNCHANGED <<now, collectVars, handlerVars, targetVars, renderVars>>

\* the host fulfils lookup i: p.then(v => { clearTimeout(t); resolve(v); })
HostFulfils(i) ==
    /\ lookups[i].state = "pending"
    /\ LET lks == [lookups EXCEPT ![i].state = "fulfilled"]
       IN  IF rpc = "await" /\ i = Len(lookups) /\ entryLog[i].via = "pending"
           THEN Resume(FoundNode(lookups[i].id), "value", lks)
           ELSE /\ lookups' = lks
                /\ UNCHANGED <<job, rpc, idx, names, timer, entryLog, result>>
    /\ UNCHANGED <<now, collectVars, handlerVars, targetVars, renderVars>>

\* the host rejects lookup i: .catch(() => { clearTimeout(t); resolve(undefined); })
HostRejects(i) ==
    /\ lookups[i].state = "pending"
    /\ LET lks == [lookups EXCEPT ![i].state = "rejected"]
       IN  IF rpc = "await" /\ i = Len(lookups) /\ entryLog[i].via = "pending"
           THEN Resume(Undefined, "rejected", lks)
           ELSE /\ lookups' = lks
                /\ UNCHANGED <<job, rpc, idx, names, timer, entryLog, result>>
    /\ UNCHANGED <<now, collectVars, handlerVars, targetVars, renderVars>>

\* the timer of the awaited wrapper fires: resolve(undefined); the lookup
\* itself stays pending (orphaned)
TimerFires ==
    /\ timer.armed /\ now >= timer.deadline
    /\ Resume(Undefined, "timeout", lookups)
    /\ UNCHANGED <<now, collectVars, handlerVars, targetVars, renderVars>>

\* time passes; an armed timer fires as soon as it is due
Tick ==
    /\ now + TickMs <= MaxTime
    /\ ~(timer.armed /\ now >= timer.deadline)
    /\ now' = IF timer.armed THEN Min(now + TickMs, timer.deadline) ELSE now + TickMs
    /\ UNCHANGED <<job, rpc, idx, names, timer, lookups, entryLog, result>>
    /\ UNCHANGED <<collectVars, handlerVars, targetVars, renderVars>>

\* the reference values a definition can carry as defaultValue
SwapRefs ==
    {JsString(<<"1">>), JsString(<<"4">>), JsString(<<"9">>), JsString(<<"8">>),
     JsString(<<>>), JsNumber(5), JsNull, Undefined, JsObject("id", <<"1">>)}

\* the entries a preferredValues array can carry
PrefItems ==
    {JsString(<<"1">>), JsString(<<"3">>), JsObject("id", <<"2">>), JsObject("key", <<"1">>),
     JsString(<<"9">>), JsString(<<"8">>), JsNull}

PrefArrays == UNION {[1..n -> PrefItems] : n \in 0..MaxRefs}

InitResolve == CollectIdle /\ ResolveIdle /\ HandlersIdle /\ TargetIdle /\ RenderIdle

NextResolve ==
    \/ \E id \in SwapRefs : CallResolveSwapName(id)
    \/ \E pref \in {JsArray(a) : a \in PrefArrays} \cup {Undefined} : CallResolvePreferred(pref)
    \/ \E i \in 1..Len(lookups) : HostFulfils(i)
    \/ \E i \in 1..Len(lookups) : HostRejects(i)
    \/ TimerFires
    \/ Tick

SpecResolve == InitResolve /\ [][NextResolve]_vars

\* ---------------------------------------------------- SpecResolve: claims

Timeouts == {i \in 1..Len(entryLog) : entryLog[i].via = "timeout"}

\* C6 (bounded resolution): a caller is never kept waiting on a lookup for
\* longer than the timeout; a lookup that has not completed when its wait
\* ended was given up exactly NODE_RESOLVE_TIMEOUT_MS after it was issued, and
\* yields no name: resolveSwapName returns null, resolvePreferredInstanceNames
\* adds nothing for that entry.
C6_BoundedResolution ==
    /\ rpc = "await" =>
          now <= entryLog[Len(entryLog)].issuedAt + NODE_RESOLVE_TIMEOUT_MS
    /\ \A i \in 1..Len(entryLog) :
          (lookups[i].state = "pending" /\ entryLog[i].via # "pending")
              => /\ entryLog[i].via = "timeout"
                 /\ entryLog[i].settledAt = entryLog[i].issuedAt + NODE_RESOLVE_TIMEOUT_MS
    /\ (job.kind = "swap" /\ rpc = "done" /\ Timeouts # {}) => result.t = "null"
    /\ (job.kind = "preferred" /\ rpc = "done" /\ Timeouts = 1..Len(entryLog))
          => result.v = <<>>

\* C6 witness: two preferred entries whose lookups never completed were both
\* given up, the second 2 * 600 ms after the call
C6_Witness ==
    /\ job.kind = "preferred" /\ rpc = "done"
    /\ Len(entryLog) = 2 /\ Timeouts = {1, 2}
    /\ lookups[1].state = "pending" /\ lookups[2].state = "pending"
    /\ entryLog[2].settledAt = entryLog[1].issuedAt + 2 * NODE_RESOLVE_TIMEOUT_MS
    /\ result.v = <<>>

\* C7 (resolveSwapName never throws): no exception leaves resolveSwapName; it
\* returns the node's name when the lookup completed in time with a node, and
\* null when the timeout came first, the lookup was rejected, threw or found
\* nothing, or the reference is not a non-empty string, in which case no
\* lookup was issued.
C7_SwapNeverThrows ==
    /\ rpc # "threw"
    /\ (job.kind = "swap" /\ rpc = "done") =>
          IF Malformed(job.arg) THEN result.t = "null" /\ lookups = <<>>
          ELSE IF ThrowsSync(job.arg.v) THEN result.t = "null" /\ lookups = <<>>
          ELSE IF entryLog[1].via = "value" /\ job.arg.v \in NodeIds
               THEN result.t = "string" /\ result.v = NodeName(job.arg.v)
               ELSE result.t = "null"

\* C7 witness: a rejected lookup was turned into null
C7_Witness ==
    /\ job.kind = "swap" /\ rpc = "done"
    /\ Len(entryLog) = 1 /\ entryLog[1].via = "rejected"
    /\ result.t = "null"

\* --------------------------------------------------------- message handlers
\* figma.ui.onmessage and figma.on('selectionchange') are async functions on
\* one thread.  A handler runs from one host suspension (loadAllPagesAsync,
\* the lookups inside toMarkdownTarget / toJSONSummaryTarget, the instance hop
\* of resolveFromSelectionAsync) to the next without interruption; at a
\* suspension any other handler may run or a new message may be delivered.
\* Component sets are numbered 1..n in findAll order; a set's number stands
\* for its name.  post() also sends a camelCase copy of each message, which
\* is not recorded separately.

Slots == 1..MaxHandlers

Formats == {"md", "json"}

\* ---- messages posted to the UI
Busy(v) == [type |-> "busy", value |-> v]
ScanStart(n) == [type |-> "scan-start", total |-> n]
SetsCount(n) == [type |-> "sets-count", count |-> n]
ScanTick(i, n, s) == [type |-> "scan-tick", index |-> i, total |-> n, name |-> s]
ScanComplete(n, fmt) == [type |-> "scan-complete", total |-> n, format |-> fmt]
GenStart(n) == [type |-> "gen-start", total |-> n]
GenTick(i, n, s) == [type |-> "gen-tick", index |-> i, total |-> n, name |-> s]
GenComplete(c, fmt) == [type |-> "gen-complete", content |-> c, format |-> fmt]
Status(m, s) == [type |-> "status", message |-> m, name |-> s]
Progress(c, n, l) == [type |-> "progress", current |-> c, total |-> n, label |-> l]
DownloadText(c, fmt) == [type |-> "download-text", content |-> c, format |-> fmt]
GenerationResult(fmt, o) == [type |-> "generation-result", format |-> fmt, output |-> o]
SelectionInfo(s) == [type |-> "selection-info", name |-> s]
CopyPayload(md, json) == [type |-> "copy-payload", md |-> md, json |-> json]

\* ---- documents
\* what toMarkdownTarget / toJSONSummaryTarget return for set s
MdOf(s) == [kind |-> "md", name |-> s]
JsonOf(s) == [kind |-> "json", name |-> s]
\* JSON.parse of the latter
JsonParse(j) == [kind |-> "doc", name |-> j.name]
\* `# ${s.name}\n\n> Failed to generate this Component Set. Skipped.`
MdFailed(s) == [kind |-> "failed", name |-> s]
\* { name: s.name, error: 'Failed to generate this Component Set' }
JsonError(s) == [kind |-> "error", name |-> s]
Separator == [kind |-> "separator", name |-> 0]
EmptyText == <<>>

\* parts.join('\n\n---\n\n')
RECURSIVE Join(_)
Join(parts) ==
    IF Len(parts) <= 1 THEN parts
    ELSE <<Head(parts), Separator>> \o Join(Tail(parts))

\* mutant: count is the number of items that are documents
JsonPayloadCountDocs(items) ==
    [document |-> "root",
     count |-> Len(SelectSeq(items, LAMBDA e : e.kind = "doc")),
     items |-> items]

\* { document, count: items.length, items }
JsonPayload(items) == [document |-> "root", count |-> Len(items), items |-> items]

\* mutant: a failed item is left out of the aggregate
PartOfSkipFailed(fmt, s, ok) ==
    IF ok THEN (IF fmt = "md" THEN <<MdOf(s)>> ELSE <<JsonParse(JsonOf(s))>>)
    ELSE <<>>

\* what one pass of the try/catch in the generation loop pushes
PartOf(fmt, s, ok) ==
    IF fmt = "md"
    THEN (IF ok THEN <<MdOf(s)>> ELSE <<MdFailed(s)>>)
    ELSE (IF ok THEN <<JsonParse(JsonOf(s))>> ELSE <<JsonError(s)>>)

Aggregate(fmt, parts) == IF fmt = "md" THEN Join(parts) ELSE JsonPayload(parts)

\* ---- activation records
NoHandler ==
    [kind |-> "none", pc |-> "idle", fmt |-> "md", sets |-> <<>>, i |-> 0,
     parts |-> <<>>, target |-> 0, during |-> FALSE, md |-> MdOf(0)]

BatchKinds == {"export", "ui-scan", "ui-generate-all", "export-all"}

Running(h) == hs[h].pc \notin {"idle", "done", "failed"}

\* a scan, generate-all or export handler has started and has not finished
BatchActive == \E h \in Slots : Running(h) /\ hs[h].kind \in BatchKinds

Free(h) == ~Running(h) /\ \A g \in Slots : g < h => Running(g)

\* ---- the running code as a transformer of (flags, cache, activation, output)
Machine(h) ==
    [busy |-> busy, scanAllowed |-> scanAllowed, scanCache |-> scanCache,
     scanFormat |-> scanFormat, hr |-> hs[h], out |-> <<>>, scanned |-> <<>>]

Fresh(kind, fmt) ==
    [busy |-> busy, scanAllowed |-> scanAllowed, scanCache |-> scanCache,
     scanFormat |-> scanFormat,
     hr |-> [NoHandler EXCEPT !.kind = kind, !.fmt = fmt, !.during = BatchActive],
     out |-> <<>>, scanned |-> <<>>]

PostM(m, msgs) == [m EXCEPT !.out = @ \o msgs]

At(m, pc) == [m EXCEPT !.hr.pc = pc]

\* the handler's variables after the step described by m
Commit(h, m, new) ==
    /\ busy' = m.busy
    /\ scanAllowed' = m.scanAllowed
    /\ scanCache' = m.scanCache
    /\ scanFormat' = m.scanFormat
    /\ hs' = [hs EXCEPT ![h] = m.hr]
    /\ posted' = [posted EXCEPT ![h] = IF new THEN m.out ELSE @ \o m.out]
    /\ scans' = [scans EXCEPT ![h] = IF new THEN m.scanned ELSE @ \o m.scanned]
    /\ nreq' = IF new THEN nreq + 1 ELSE nreq
    /\ UNCHANGED <<doc, failing, collectVars, resolveVars, targetVars, renderVars>>

\* mutant: the finally block resets __busy and leaves __scanAllowed
FinallyBusyOnly(m, raised) ==
    IF m.hr.kind \in {"export", "ui-generate-all", "ui-scan"}
    THEN At(PostM([m EXCEPT !.busy = FALSE], <<Busy(FALSE)>>), "done")
    ELSE At(m, "done")

\* mutant: the flags are reset at the end of the try block only
FinallyOnSuccessOnly(m, raised) ==
    IF m.hr.kind \in {"export", "ui-generate-all"} /\ ~raised
    THEN At(PostM([m EXCEPT !.busy = FALSE, !.scanAllowed = FALSE], <<Busy(FALSE)>>), "done")
    ELSE IF m.hr.kind = "ui-scan" /\ ~raised
    THEN At(PostM([m EXCEPT !.busy = FALSE], <<Busy(FALSE)>>), "done")
    ELSE At(m, "done")

\* the finally block of the handler (none for ui-generate and export-all)
Finally(m, raised) ==
    IF m.hr.kind \in {"export", "ui-generate-all"}
    THEN At(PostM([m EXCEPT !.busy = FALSE, !.scanAllowed = FALSE], <<Busy(FALSE)>>), "done")
    ELSE IF m.hr.kind = "ui-scan"
    THEN At(PostM([m EXCEPT !.busy = FALSE], <<Busy(FALSE)>>), "done")
    ELSE At(m, "done")

\* the catch block of the handler, then its finally
Catch(m) ==
    CASE m.hr.kind = "export" -> Finally(PostM(m, <<Status("Export failed", 0)>>), TRUE)
      [] m.hr.kind = "ui-scan" -> Finally(PostM(m, <<Status("Scan failed", 0)>>), TRUE)
      [] m.hr.kind = "ui-generate-all" ->
            Finally(PostM(m, <<Status("Generate failed", 0)>>), TRUE)
      [] m.hr.kind = "ui-generate" ->
            At(PostM(m, <<GenerationResult(m.hr.fmt, EmptyText),
                          Status("Error while generating", 0)>>), "done")
      [] m.hr.kind = "copy" -> At(PostM(m, <<Status("Copy failed", 0)>>), "done")
      [] m.hr.kind \in {"generate", "generate-md", "generate-json"} ->
            At(PostM(m, <<Status("Failed to generate", 0)>>), "done")
      [] OTHER -> At(m, "failed")

\* mutant: scan-complete is posted before the scan-ticks
streamScanCompleteFirst(m, found) ==
    PostM([m EXCEPT !.scanCache = found, !.scanFormat = m.hr.fmt,
                    !.scanned = @ \o <<m.scanAllowed>>],
          <<ScanStart(Len(found)), SetsCount(Len(found)), ScanComplete(Len(found), m.hr.fmt)>>
              \o [i \in 1..Len(found) |-> ScanTick(i, Len(found), found[i])])

\* scan-tick messages of streamScan
ScanTicks(sets) == [i \in 1..Len(sets) |-> ScanTick(i, Len(sets), sets[i])]

\* streamScan after loadAllPagesAsync: findAll, cache, scan messages
streamScan(m, found) ==
    PostM([m EXCEPT !.scanCache = found, !.scanFormat = m.hr.fmt,
                    !.scanned = @ \o <<m.scanAllowed>>],
          <<ScanStart(Len(found)), SetsCount(Len(found))>> \o ScanTicks(found)
              \o <<ScanComplete(Len(found), m.hr.fmt)>>)

\* mutant: the tick of pass i is read from __exportScanCache as it is now
TickOfCache(m, i) ==
    IF m.hr.kind = "export-all"
    THEN Progress(i, Len(m.hr.sets), m.hr.sets[i])
    ELSE GenTick(i, Len(m.scanCache), IF i <= Len(m.scanCache) THEN m.scanCache[i] ELSE 0)

\* the tick that opens pass i of a generation loop
TickOf(m, i) ==
    IF m.hr.kind = "export-all"
    THEN Progress(i, Len(m.hr.sets), m.hr.sets[i])
    ELSE GenTick(i, Len(m.hr.sets), m.hr.sets[i])

\* the end of streamGenerateAll / exportAllMarkdown / exportAllJSON
Complete(m) ==
    IF m.hr.kind = "export-all"
    THEN At(PostM(m, <<DownloadText(Aggregate(m.hr.fmt, m.hr.parts), m.hr.fmt),
                       Status("ready", 0)>>), "done")
    ELSE Finally(PostM([m EXCEPT !.scanFormat = "null"],
                       <<GenComplete(Aggregate(m.hr.fmt, m.hr.parts), m.hr.fmt)>>), FALSE)

\* streamGenerateAll(fmt) up to its first await
streamGenerateAll(m) ==
    LET sets == m.scanCache
        m1 == PostM([m EXCEPT !.hr.sets = sets, !.hr.parts = <<>>], <<GenStart(Len(sets))>>)
    IN  IF sets = <<>> THEN Complete(m1)
        ELSE At(PostM([m1 EXCEPT !.hr.i = 1], <<TickOf(m1, 1)>>), "gen")

\* exportAllMarkdown / exportAllJSON after loadAllPagesAsync, up to the first await
exportAll(m, found) ==
    LET m0 == [m EXCEPT !.scanned = @ \o <<m.scanAllowed>>, !.hr.sets = found]
    IN  IF found = <<>>
        THEN At(PostM(m0, <<Status("No Component Sets found", 0),
                            DownloadText(Aggregate(m.hr.fmt, <<>>), m.hr.fmt)>>), "done")
        ELSE LET m1 == PostM(m0, <<Status("Generating", 0),
                                   Progress(0, Len(found), "Initializing")>>)
             IN  At(PostM([m1 EXCEPT !.hr.i = 1], <<TickOf(m1, 1)>>), "gen")

\* mutant: the tick of the next pass is posted only after a pass that succeeded
GenStepTickOnSuccess(m, ok) ==
    LET i == m.hr.i
        s == m.hr.sets[i]
        m1 == [m EXCEPT !.hr.parts = @ \o PartOf(m.hr.fmt, s, ok)]
        m2 == IF ~ok /\ m.hr.kind = "export-all"
              THEN PostM(m1, <<Status("Skipped", s)>>) ELSE m1
    IN  IF i < Len(m.hr.sets)
        THEN PostM([m2 EXCEPT !.hr.i = i + 1], IF ok THEN <<TickOf(m2, i + 1)>> ELSE <<>>)
        ELSE Complete(m2)

\* the await of pass i settles: push the part, then the next pass or the end
GenStep(m, ok) ==
    LET i == m.hr.i
        s == m.hr.sets[i]
        m1 == [m EXCEPT !.hr.parts = @ \o PartOf(m.hr.fmt, s, ok)]
        m2 == IF ~ok /\ m.hr.kind = "export-all"
              THEN PostM(m1, <<Status("Skipped", s)>>) ELSE m1
    IN  IF i < Len(m.hr.sets)
        THEN PostM([m2 EXCEPT !.hr.i = i + 1], <<TickOf(m2, i + 1)>>)
        ELSE Complete(m2)

\* ---- requests
\* 'export-md' / 'Export .md' / 'export-json' / 'Export .json'
Export(h, fmt) ==
    /\ Free(h) /\ nreq < MaxRequests
    /\ LET m == Fresh("export", fmt)
       IN  Commit(h, At(PostM([m EXCEPT !.busy = TRUE, !.scanAllowed = TRUE],
                              <<Busy(TRUE)>>), "load"), TRUE)
    /\ UNCHANGED selection

\* 'ui-scan' / 'uiScan'
UiScan(h, fmt) ==
    /\ Free(h) /\ nreq < MaxRequests
    /\ LET m == Fresh("ui-scan", fmt)
       IN  IF ~scanAllowed
           THEN Commit(h, At(m, "done"), TRUE)
           ELSE Commit(h, At(PostM([m EXCEPT !.busy = TRUE], <<Busy(TRUE)>>), "load"), TRUE)
    /\ UNCHANGED selection

\* 'ui-generate-all' / 'uiGenerateAll'; given is msg.format or "none"
UiGenerateAll(h, given) ==
    /\ Free(h) /\ nreq < MaxRequests
    /\ LET fmt == IF given # "none" THEN given
                  ELSE IF scanFormat # "null" THEN scanFormat ELSE "md"
           m == Fresh("ui-generate-all", fmt)
       IN  Commit(h, streamGenerateAll(PostM([m EXCEPT !.busy = TRUE], <<Busy(TRUE)>>)), TRUE)
    /\ UNCHANGED selection

\* 'ui-export-all-md' / 'ui-export-all-json' and their aliases
ExportAll(h, fmt) ==
    /\ Free(h) /\ nreq < MaxRequests
    /\ Commit(h, At(Fresh("export-all", fmt), "load"), TRUE)
    /\ UNCHANGED selection

\* ---- host completions
\* loadAllPagesAsync resolves
LoadResolves(h) ==
    /\ hs[h].pc = "load"
    /\ LET m == Machine(h)
       IN  CASE hs[h].kind = "export" -> Commit(h, streamGenerateAll(streamScan(m, doc)), FALSE)
             [] hs[h].kind = "ui-scan" -> Commit(h, Finally(streamScan(m, doc), FALSE), FALSE)
             [] OTHER -> Commit(h, exportAll(m, doc), FALSE)
    /\ UNCHANGED selection

\* loadAllPagesAsync rejects
LoadRejects(h) ==
    /\ hs[h].pc = "load"
    /\ Commit(h, Catch(Machine(h)), FALSE)
    /\ UNCHANGED selection

\* toMarkdownTarget / toJSONSummaryTarget of pass i settles
ItemSettles(h) ==
    /\ hs[h].pc = "gen"
    /\ Commit(h, GenStep(Machine(h), hs[h].sets[hs[h].i] \notin failing), FALSE)
    /\ UNCHANGED selection

\* ---- single-selection requests
\* the rest of sendSelectionInfoAsync once the target is known
SelectionInfoFor(m) ==
    LET t == m.hr.target
    IN  IF t = 0
        THEN PostM(m, <<SelectionInfo(0), Status("No valid selection", 0)>>)
        ELSE IF t \in failing THEN At(m, "failed")
        ELSE PostM(m, <<SelectionInfo(t), Status("Selection detected", 0)>>)

\* the first await of the rendering that follows target resolution
RenderBegin(m) == At(m, IF m.hr.fmt = "json" THEN "render-json" ELSE "render-md")

\* the handler continues after "await resolveFromSelectionAsync()"
AfterResolve(m) ==
    LET t == m.hr.target
    IN  CASE m.hr.kind = "selectionchange" ->
               LET m1 == SelectionInfoFor(m)
               IN  IF m1.hr.pc = "failed" THEN m1 ELSE At(m1, "done")
          [] m.hr.kind = "ui-ready" ->
               LET m1 == SelectionInfoFor(m)
               IN  IF m1.hr.pc = "failed" THEN m1
                   ELSE At(PostM(m1, <<Status("Backend ready", 0)>>), "done")
          [] m.hr.kind = "ui-generate" ->
               IF t = 0
               THEN At(PostM(m, <<GenerationResult(m.hr.fmt, EmptyText),
                                  Status("Please select", 0)>>), "done")
               ELSE RenderBegin(m)
          [] m.hr.kind = "generate" ->
               \* no test of the target: rendering None throws inside the try
               IF t = 0 THEN Catch(m) ELSE RenderBegin(m)
          [] m.hr.kind \in {"generate-md", "generate-json"} ->
               IF t = 0
               THEN At(PostM(m, <<Status("Select a Component", 0),
                                  GenerationResult(m.hr.fmt, EmptyText)>>), "done")
               ELSE RenderBegin(m)
          [] m.hr.kind = "ui-export" ->
               At(PostM(m, <<DownloadText("payload", "json"),
                             Status("Export ready", 0)>>), "done")
          [] OTHER ->
               IF t = 0
               THEN At(PostM(m, <<Status("Nothing to copy", 0),
                                  CopyPayload(EmptyText, EmptyText)>>), "done")
               ELSE At(m, "render-md")

\* resolveFromSelectionAsync(): an empty selection returns at once, otherwise
\* the walk may hop through an instance and suspends
Resolve(m, sel) ==
    IF sel = 0 THEN AfterResolve([m EXCEPT !.hr.target = 0])
    ELSE At([m EXCEPT !.hr.target = sel], "resolve")

\* sendSelectionInfoAsync(): if (__busy) return
sendSelectionInfoAsync(m, sel) == IF m.busy THEN m ELSE Resolve(m, sel)

\* 'ui-ready' / 'uiReady'
UiReady(h) ==
    /\ Free(h) /\ nreq < MaxRequests
    /\ LET m == Fresh("ui-ready", "md")
       IN  IF busy
           THEN Commit(h, At(PostM(sendSelectionInfoAsync(m, selection),
                                   <<Status("Backend ready", 0)>>), "done"), TRUE)
           ELSE Commit(h, sendSelectionInfoAsync(m, selection), TRUE)
    /\ UNCHANGED selection

\* figma.on('selectionchange'): the user selects sel
SelectionChange(h, sel) ==
    /\ Free(h) /\ nreq < MaxRequests
    /\ selection' = sel
    /\ LET m == Fresh("selectionchange", "md")
       IN  IF busy
           THEN Commit(h, At(m, "done"), TRUE)
           ELSE Commit(h, sendSelectionInfoAsync(PostM(m, <<Status("Selection changed", 0)>>),
                                                 sel), TRUE)

\* 'ui-generate' / 'uiGenerate'; fmtTop is msg.format || msg.options?.format or "none"
UiGenerate(h, fmtTop) ==
    /\ Free(h) /\ nreq < MaxRequests
    /\ LET m == Fresh("ui-generate", fmtTop)
       IN  IF Len(scanCache) > 0 /\ fmtTop # "none"
           THEN Commit(h, streamGenerateAll(m), TRUE)
           ELSE Commit(h, Resolve(PostM(m, <<Status("Generating", 0)>>), selection), TRUE)
    /\ UNCHANGED selection

\* 'copy' / 'Copy' / 'ui-copy-request' / 'copyRequest'
Copy(h) ==
    /\ Free(h) /\ nreq < MaxRequests
    /\ Commit(h, Resolve(Fresh("copy", "md"), selection), TRUE)
    /\ UNCHANGED selection

\* 'generate' / 'Generate' (md), 'generate-md', 'generate-json'
Generate(h, variant) ==
    /\ Free(h) /\ nreq < MaxRequests
    /\ Commit(h, Resolve(Fresh(variant, IF variant = "generate-json" THEN "json" ELSE "md"),
                         selection), TRUE)
    /\ UNCHANGED selection

\* 'ui-export' / 'uiExport'
UiExport(h) ==
    /\ Free(h) /\ nreq < MaxRequests
    /\ Commit(h, Resolve(Fresh("ui-export", "json"), selection), TRUE)
    /\ UNCHANGED selection

\* getMainComponentAsync of the instance hop rejects: resolveTargetFromNodeAsync
\* and resolveFromSelectionAsync have no try/catch, so the caller's await throws
ResolveRejects(h) ==
    /\ hs[h].pc = "resolve"
    /\ Commit(h, Catch(Machine(h)), FALSE)
    /\ UNCHANGED selection

\* the instance hop of resolveFromSelectionAsync settles
ResolveSettles(h) ==
    /\ hs[h].pc = "resolve"
    /\ Commit(h, AfterResolve(Machine(h)), FALSE)
    /\ UNCHANGED selection

\* the awaited toMarkdownTarget / toJSONSummaryTarget of the selection settles
RenderStep(m, ok) ==
    LET t == m.hr.target
    IN  IF ~ok THEN Catch(m)
        ELSE IF m.hr.kind = "copy"
        THEN IF m.hr.pc = "render-md"
             THEN At([m EXCEPT !.hr.md = MdOf(t)], "render-json")
             ELSE At(PostM(m, <<CopyPayload(m.hr.md, JsonOf(t)),
                                Status("Copy payload ready", 0)>>), "done")
        ELSE IF m.hr.pc = "render-md"
        THEN LET m1 == PostM(m, <<GenerationResult("md", MdOf(t))>>)
             IN  IF m.hr.fmt = "none" THEN At(m1, "render-json")
                 ELSE At(PostM(m1, <<Status("Generated", 0)>>), "done")
        ELSE At(PostM(m, <<GenerationResult("json", JsonOf(t)),
                           Status("Generated", 0)>>), "done")

RenderSettles(h) ==
    /\ hs[h].pc \in {"render-md", "render-json"}
    /\ Commit(h, RenderStep(Machine(h), hs[h].target \notin failing), FALSE)
    /\ UNCHANGED selection

\* ---- the state machine
\* the plugin has just started on a document of at most n component sets, some
\* of which raise when their property definitions are read
InitDoc(n) ==
    /\ CollectIdle /\ ResolveIdle /\ TargetIdle /\ RenderIdle
    /\ busy = FALSE /\ scanAllowed = FALSE /\ scanCache = <<>> /\ scanFormat = "null"
    /\ \E k \in 0..n : doc = [i \in 1..k |-> i]
    /\ failing \in SUBSET {doc[i] : i \in 1..Len(doc)}
    /\ selection = 0
    /\ hs = [h \in Slots |-> NoHandler]
    /\ posted = [h \in Slots |-> <<>>]
    /\ scans = [h \in Slots |-> <<>>]
    /\ nreq = 0

Init == InitDoc(MaxSets)

Next ==
    \/ \E h \in Slots, fmt \in Formats : Export(h, fmt)
    \/ \E h \in Slots, fmt \in Formats : UiScan(h, fmt)
    \/ \E h \in Slots, given \in Formats \cup {"none"} : UiGenerateAll(h, given)
    \/ \E h \in Slots, fmt \in Formats : ExportAll(h, fmt)
    \/ \E h \in Slots : UiReady(h)
    \/ \E h \in Slots, sel \in 0..Len(doc) : SelectionChange(h, sel)
    \/ \E h \in Slots, fmtTop \in Formats \cup {"none"} : UiGenerate(h, fmtTop)
    \/ \E h \in Slots : Copy(h)
    \/ \E h \in Slots : LoadResolves(h)
    \/ \E h \in Slots : LoadRejects(h)
    \/ \E h \in Slots : ItemSettles(h)
    \/ \E h \in Slots : ResolveSettles(h)
    \/ \E h \in Slots : RenderSettles(h)

Spec == Init /\ [][Next]_vars

\* ---- requests about the current selection alone
NextSelect ==
    \/ \E h \in Slots : UiReady(h)
    \/ \E h \in Slots, sel \in 0..Len(doc) : SelectionChange(h, sel)
    \/ \E h \in Slots, fmtTop \in Formats \cup {"none"} : UiGenerate(h, fmtTop)
    \/ \E h \in Slots, variant \in {"generate", "generate-md", "generate-json"} :
          Generate(h, variant)
    \/ \E h \in Slots : Copy(h)
    \/ \E h \in Slots : UiExport(h)
    \/ \E h \in Slots : ResolveSettles(h)
    \/ \E h \in Slots : ResolveRejects(h)
    \/ \E h \in Slots : RenderSettles(h)

SpecSelect == Init /\ [][NextSelect]_vars

\* ---- batch runs one after the other, over larger documents
InitBatch == InitDoc(MaxTargets)

\* no handler is suspended
Quiet == \A h \in Slots : ~Running(h)

NextBatch ==
    \/ \E h \in Slots, fmt \in Formats : Quiet /\ Export(h, fmt)
    \/ \E h \in Slots, fmt \in Formats : Quiet /\ UiScan(h, fmt)
    \/ \E h \in Slots, given \in Formats \cup {"none"} : Quiet /\ UiGenerateAll(h, given)
    \/ \E h \in Slots, fmt \in Formats : Quiet /\ ExportAll(h, fmt)
    \/ \E h \in Slots, fmtTop \in Formats \cup {"none"} : Quiet /\ UiGenerate(h, fmtTop)
    \/ \E h \in Slots : LoadResolves(h)
    \/ \E h \in Slots : LoadRejects(h)
    \/ \E h \in Slots : ItemSettles(h)

SpecBatch == InitBatch /\ [][NextBatch]_vars

\* ---- properties of batch runs
GeneratingKinds == {"export", "ui-generate-all", "ui-generate", "export-all"}

\* the messages of posted[h] that carry an aggregate document
Aggregates(h) ==
    SelectSeq(posted[h], LAMBDA msg : msg.type \in {"gen-complete", "download-text"})

\* the entries of an aggregate document
Entries(fmt, content) ==
    IF fmt = "md" THEN SelectSeq(content, LAMBDA e : e # Separator) ELSE content.items

\* what the entry of set s has to be
ExpectedEntry(fmt, s) ==
    IF fmt = "md" THEN (IF s \in failing THEN MdFailed(s) ELSE MdOf(s))
    ELSE (IF s \in failing THEN JsonError(s) ELSE [kind |-> "doc", name |-> s])

\* a generation loop of h has begun or has had nothing to do
LoopEntered(h) ==
    /\ hs[h].kind \in GeneratingKinds
    /\ \E k \in 1..Len(posted[h]) :
          posted[h][k].type \in {"gen-start", "progress", "download-text"}

\* C4: a batch generation over N targets of which some raise is not aborted:
\* the handler that ran the loop ends with exactly one aggregate document, and
\* that document has exactly N entries in discovery order, the failure
\* placeholder for each target that raised and the full document for each
\* other one, in the textual (md) and in the structured (json) format alike.
C4_FaultIsolation ==
    \A h \in Slots :
        LoopEntered(h) /\ ~Running(h) =>
            /\ hs[h].pc = "done"
            /\ Len(Aggregates(h)) = 1
            /\ LET fmt == hs[h].fmt
                   sets == hs[h].sets
                   content == Aggregates(h)[1].content
                   entries == Entries(fmt, content)
               IN  /\ Len(entries) = Len(sets)
                   /\ \A i \in 1..Len(sets) : entries[i] = ExpectedEntry(fmt, sets[i])
                   /\ fmt = "json" => content.count = Len(sets)
                   /\ fmt = "md" => Len(content) = (IF sets = <<>> THEN 0 ELSE 2 * Len(sets) - 1)

\* three targets of which exactly the second raised, aggregated as json
C4_Witness ==
    \E h \in Slots :
        /\ hs[h].pc = "done" /\ hs[h].fmt = "json" /\ Len(hs[h].sets) = 3
        /\ {i \in 1..3 : hs[h].sets[i] \in failing} = {2}
        /\ Len(Aggregates(h)) = 1
        /\ Aggregates(h)[1].content.count = 3

\* the per-target ticks h has posted (the index of a target is at least 1)
Ticks(h) ==
    SelectSeq(posted[h], LAMBDA msg :
        \/ msg.type = "gen-tick"
        \/ msg.type = "progress" /\ msg.current >= 1)

TickIndex(msg) == IF msg.type = "gen-tick" THEN msg.index ELSE msg.current

TickName(msg) == IF msg.type = "gen-tick" THEN msg.name ELSE msg.label

\* C5: during a batch generation over N targets the ticks posted so far are
\* those of the passes begun, with running index 1, 2, ... in discovery order,
\* total N and the target's name, whether the earlier passes succeeded or
\* raised; when the loop has ended there are exactly N of them.  (Export-all
\* posts one more progress event, 0/N "Initializing", before its loop.)
C5_ProgressTicks ==
    \A h \in Slots :
        LoopEntered(h) =>
            LET sets == hs[h].sets
                N == Len(sets)
                ticks == Ticks(h)
            IN  /\ Len(ticks) = hs[h].i
                /\ ~Running(h) => Len(ticks) = N
                /\ \A k \in 1..Len(ticks) :
                      /\ TickIndex(ticks[k]) = k
                      /\ ticks[k].total = N
                      /\ TickName(ticks[k]) = sets[k]
                /\ hs[h].kind # "export-all" =>
                      SelectSeq(posted[h], LAMBDA msg : msg.type = "progress") = <<>>
                /\ hs[h].kind = "export-all" /\ N > 0 =>
                      SelectSeq(posted[h], LAMBDA msg : msg.type = "progress" /\ msg.current = 0)
                          = <<Progress(0, N, "Initializing")>>

\* three targets of which the second raised: ticks 1/3, 2/3, 3/3
C5_Witness ==
    \E h \in Slots :
        /\ hs[h].pc = "done" /\ Len(hs[h].sets) = 3
        /\ hs[h].sets[2] \in failing
        /\ Len(Ticks(h)) = 3

\* ---- properties of the flags
\* C8: every full workspace scan (loadAllPagesAsync, then findAll over the
\* whole document) runs while the scan-permitted flag is set: scans[h] holds,
\* for each scan handler h has run, the value of the flag at that moment.
C8_ScanGuard ==
    \A h \in Slots : \A k \in 1..Len(scans[h]) : scans[h][k] = TRUE

\* C9: a selection-changed event that arrives while a scan, generate-all,
\* export or export-all handler has started and not finished is skipped: its
\* activation posts nothing and resolves no target.
C9_SelectionSuppressed ==
    \A h \in Slots :
        hs[h].kind = "selectionchange" /\ hs[h].during =>
            posted[h] = <<>> /\ hs[h].pc = "done"

\* the step is the arrival of the request that slot h serves
Started(h) == nreq' # nreq /\ Free(h)

\* the step ends the handler of slot h
Ended(h) ==
    /\ Started(h) \/ (nreq' = nreq /\ hs'[h] # hs[h])
    /\ hs'[h].pc \in {"done", "failed"}

\* the handler of slot h has set __busy
SetBusy(h) == \E k \in 1..Len(posted'[h]) : posted'[h][k] = Busy(TRUE)

\* C10: the step in which an export-md / export-json request arrives sets busy
\* and scan-permitted; the step in which its handler ends, after a successful
\* scan and generation, a scan that raised or a generation that raised, leaves
\* both flags clear and busy{value:false} as the last message posted; the
\* step that ends a ui-scan or ui-generate-all handler that had set busy
\* leaves busy clear.
C10_FlagRelease ==
    [][\A h \in Slots :
          /\ Started(h) /\ hs'[h].kind = "export" => busy' /\ scanAllowed'
          /\ Ended(h) /\ hs'[h].kind = "export" =>
                /\ ~busy' /\ ~scanAllowed'
                /\ posted'[h][Len(posted'[h])] = Busy(FALSE)
          /\ Ended(h) /\ hs'[h].kind \in {"ui-scan", "ui-generate-all"} /\ SetBusy(h) =>
                /\ ~busy'
                /\ posted'[h][Len(posted'[h])] = Busy(FALSE)]_vars

\* an export whose scan raised has ended with both flags clear
C10_Witness ==
    \E h \in Slots :
        /\ hs[h].kind = "export" /\ hs[h].pc = "done"
        /\ posted[h] = <<Busy(TRUE), Status("Export failed", 0), Busy(FALSE)>>
        /\ ~busy /\ ~scanAllowed

\* C11: a batch-type request (export-md/json, ui-scan, ui-generate-all,
\* export-all) that arrives while busy is set is dropped: the step of its
\* arrival posts nothing, starts no scan and no generation, leaves busy and
\* scan-permitted as they were and leaves nothing to run later.
C11_BusyDropped ==
    [][\A h \in Slots :
          Started(h) /\ busy /\ hs'[h].kind \in BatchKinds =>
              /\ posted'[h] = <<>> /\ scans'[h] = <<>>
              /\ hs'[h].pc = "done"
              /\ busy' = busy /\ scanAllowed' = scanAllowed]_vars

\* ---- properties of the single-selection requests
GenerateKinds == {"ui-generate", "generate", "generate-md", "generate-json"}

ErrorStatuses == {"Failed to generate", "Error while generating"}

\* C12: a generate or copy request serves the current selection only: its
\* handler never posts gen-start, gen-tick or gen-complete, whatever requests
\* came before it.
C12_SingleSelectionOnly ==
    \A h \in Slots :
        hs[h].kind \in GenerateKinds \cup {"copy"} =>
            \A k \in 1..Len(posted[h]) :
                posted[h][k].type \notin {"gen-start", "gen-tick", "gen-complete"}

\* C13: a generate request of any naming variant whose selection resolved to
\* None ends with a generation-result of empty output and an informational
\* status, and with no error status.
C13_NoneSelection ==
    \A h \in Slots :
        /\ hs[h].kind \in GenerateKinds /\ hs[h].pc = "done" /\ hs[h].target = 0
        /\ \A k \in 1..Len(posted[h]) : posted[h][k].type # "gen-start"
        => /\ \E k \in 1..Len(posted[h]) :
                 /\ posted[h][k].type = "generation-result"
                 /\ posted[h][k].output = EmptyText
           /\ \E k \in 1..Len(posted[h]) : posted[h][k].type = "status"
           /\ \A k \in 1..Len(posted[h]) :
                 posted[h][k].type = "status" => posted[h][k].message \notin ErrorStatuses

\* C14: no handler ends with a failure that nothing inside it caught.
C14_NoUnhandledFailure ==
    \A h \in Slots : hs[h].pc # "failed"

\* C15: the step in which the rendering of the current selection raises during
\* a generate request of any naming variant ends the request with a
\* generation-result of empty output and a status message posted.
C15_GenerationFailure ==
    [][\A h \in Slots :
          /\ hs[h].kind \in GenerateKinds
          /\ hs[h].pc \in {"render-md", "render-json"}
          /\ hs[h].target \in failing
          /\ nreq' = nreq /\ hs'[h] # hs[h]
          => /\ hs'[h].pc = "done"
             /\ \E k \in 1..Len(posted'[h]) :
                   /\ posted'[h][k].type = "generation-result"
                   /\ posted'[h][k].output = EmptyText
             /\ posted'[h][Len(posted'[h])].type = "status"]_vars

\* ------------------------------------------------------------------
\* Target resolver: resolveTargetFromNodeAsync / resolveFromSelectionAsync.
\* A selected node is given with its chain of ancestors, nearest first; only
\* node types and, for an instance, what getMainComponentAsync does are kept.

\* what getMainComponentAsync of an instance does: it rejects, resolves to
\* null, or resolves to a component inside / outside a component set
HopOutcomes == {"rejects", "null", "main-in-set", "main-loose"}

ChainItems ==
    {[type |-> t, hop |-> "none"] : t \in {"COMPONENT_SET", "COMPONENT", "FRAME"}}
        \cup {[type |-> "INSTANCE", hop |-> o] : o \in HopOutcomes}

\* the host's containment rule: the children of a component set are components
ValidChain(c) ==
    \A i \in 1..(Len(c) - 1) :
        c[i + 1].type = "COMPONENT_SET" => c[i].type = "COMPONENT"

\* nodes listed nearest-first, each flagged when it is the root of its chain
RECURSIVE SplitChains(_, _)
SplitChains(flat, cur) ==
    IF flat = <<>> THEN <<>>
    ELSE LET c == Append(cur, Head(flat)[1])
         IN  IF Head(flat)[2] THEN <<c>> \o SplitChains(Tail(flat), <<>>)
             ELSE SplitChains(Tail(flat), c)

\* targets: { set, component } with one of them non-null
GroupT(n, pos, rel) == [kind |-> "group", n |-> n, pos |-> pos, rel |-> rel]

SingleT(n, pos, rel) == [kind |-> "single", n |-> n, pos |-> pos, rel |-> rel]

\* mutant: a component is returned loose without looking at its parent
componentLoose(chain, n, pos) == SingleT(n, pos, "self")

\* cur.type === 'COMPONENT': its parent decides
componentRule(chain, n, pos) ==
    IF pos < Len(chain) /\ chain[pos + 1].type = "COMPONENT_SET"
    THEN GroupT(n, pos + 1, "self")
    ELSE SingleT(n, pos, "self")

\* the while loop of resolveTargetFromNodeAsync from chain[pos] up to its
\* next await, its return or the end of the chain
RECURSIVE walkFrom(_, _, _, _)
walkFrom(chain, n, pos, visited) ==
    IF pos > Len(chain)
    THEN [state |-> "returned", target |-> NoTarget, pos |-> pos, visited |-> visited]
    ELSE LET cur == chain[pos]
             seen == Append(visited, <<n, pos>>)
         IN  CASE cur.type = "COMPONENT_SET" ->
                    [state |-> "returned", target |-> GroupT(n, pos, "self"),
                     pos |-> pos, visited |-> seen]
               [] cur.type = "COMPONENT" ->
                    [state |-> "returned", target |-> componentRule(chain, n, pos),
                     pos |-> pos, visited |-> seen]
               [] cur.type = "INSTANCE" ->
                    [state |-> "hop", target |-> NoTarget, pos |-> pos, visited |-> seen]
               [] OTHER -> walkFrom(chain, n, pos + 1, seen)

\* mutant: the loop over the selection returns whatever the first node gave
ReturnsAlways(t) == TRUE

\* if (t.set || t.component) return t
Returns(t) == t.kind # "none"

\* the for loop of resolveFromSelectionAsync from node n, position pos, up to
\* the next await or the return
RECURSIVE selectionLoop(_, _, _, _)
selectionLoop(n, pos, visited, results) ==
    IF n > Len(scene)
    THEN [pc |-> "done", n |-> n, pos |-> 0, visited |-> visited, results |-> results,
          result |-> NoTarget]
    ELSE LET r == walkFrom(scene[n], n, pos, visited)
         IN  IF r.state = "hop"
             THEN [pc |-> "hop", n |-> n, pos |-> r.pos, visited |-> r.visited,
                   results |-> results, result |-> NoTarget]
             ELSE IF Returns(r.target)
             THEN [pc |-> "done", n |-> n, pos |-> r.pos, visited |-> r.visited,
                   results |-> Append(results, r.target), result |-> r.target]
             ELSE selectionLoop(n + 1, 1, r.visited, Append(results, r.target))

\* "if (main)" after the hop: the target of the main component
mainRule(n, pos, outcome) ==
    IF outcome = "main-in-set" THEN GroupT(n, pos, "main-parent")
    ELSE SingleT(n, pos, "main")

\* resolveFromSelectionAsync() is called
ResolveSelection ==
    /\ walk.pc = "idle"
    /\ walk' = selectionLoop(1, 1, <<>>, <<>>)
    /\ UNCHANGED <<scene, collectVars, resolveVars, handlerVars, renderVars>>

\* getMainComponentAsync resolves, to a component or to null
HopFulfils ==
    /\ walk.pc = "hop"
    /\ LET outcome == scene[walk.n][walk.pos].hop
       IN  /\ outcome # "rejects"
           /\ walk' = IF outcome = "null"
                      THEN selectionLoop(walk.n, walk.pos + 1, walk.visited, walk.results)
                      ELSE [walk EXCEPT !.pc = "done",
                                        !.results = Append(@, mainRule(walk.n, walk.pos, outcome)),
                                        !.result = mainRule(walk.n, walk.pos, outcome)]
    /\ UNCHANGED <<scene, collectVars, resolveVars, handlerVars, renderVars>>

\* getMainComponentAsync rejects: nothing catches it on the way out
HopRejects ==
    /\ walk.pc = "hop"
    /\ scene[walk.n][walk.pos].hop = "rejects"
    /\ walk' = [walk EXCEPT !.pc = "threw"]
    /\ UNCHANGED <<scene, collectVars, resolveVars, handlerVars, renderVars>>

InitTarget ==
    /\ CollectIdle /\ ResolveIdle /\ HandlersIdle /\ RenderIdle
    /\ \E k \in 0..MaxNodes :
          \E flat \in [1..k -> ChainItems \X BOOLEAN] :
             /\ k > 0 => flat[k][2]
             /\ \A c \in {SplitChains(flat, <<>>)[i] : i \in 1..Len(SplitChains(flat, <<>>))} :
                   ValidChain(c)
             /\ scene = SplitChains(flat, <<>>)
    /\ walk = NoWalk

NextTarget == ResolveSelection \/ HopFulfils \/ HopRejects

SpecTarget == InitTarget /\ [][NextTarget]_vars

\* ---- properties of the target resolver
\* a node at which the rules of target resolution match
Matches(item) ==
    \/ item.type \in {"COMPONENT_SET", "COMPONENT"}
    \/ item.type = "INSTANCE" /\ item.hop \in {"main-in-set", "main-loose"}

\* the position of the nearest matching node of chain c (0: none)
FirstMatch(c) ==
    IF \E i \in 1..Len(c) : Matches(c[i])
    THEN CHOOSE i \in 1..Len(c) : Matches(c[i]) /\ \A j \in 1..(i - 1) : ~Matches(c[j])
    ELSE 0

\* what the rules give for the n-th selected node with chain c
ExpectedTarget(c, n) ==
    LET i == FirstMatch(c)
    IN  IF i = 0 THEN NoTarget
        ELSE CASE c[i].type = "COMPONENT_SET" -> GroupT(n, i, "self")
               [] c[i].type = "COMPONENT" ->
                    IF i < Len(c) /\ c[i + 1].type = "COMPONENT_SET"
                    THEN GroupT(n, i + 1, "self") ELSE SingleT(n, i, "self")
               [] OTHER ->
                    IF c[i].hop = "main-in-set"
                    THEN GroupT(n, i, "main-parent") ELSE SingleT(n, i, "main")

\* C16: resolveFromSelectionAsync resolves the selected nodes one at a time in
\* selection order and returns the target of the first one that resolves to a
\* non-None target: nodes after it are never visited, and the result is None
\* exactly when every selected node resolved to None or the selection is empty.
C16_FirstMatchWins ==
    /\ \A i \in 1..(Len(walk.visited) - 1) : walk.visited[i][1] <= walk.visited[i + 1][1]
    /\ \A i \in 1..Len(walk.visited) : walk.visited[i][1] <= Len(walk.results) + 1
    /\ \A k \in 1..(Len(walk.results) - 1) : walk.results[k] = NoTarget
    /\ walk.pc = "done" =>
          /\ \A i \in 1..Len(walk.visited) : walk.visited[i][1] <= Len(walk.results)
          /\ walk.result # NoTarget =>
                /\ Len(walk.results) >= 1
                /\ walk.result = walk.results[Len(walk.results)]
                /\ walk.result = ExpectedTarget(scene[Len(walk.results)], Len(walk.results))
          /\ walk.result = NoTarget <=>
                /\ Len(walk.results) = Len(scene)
                /\ \A k \in 1..Len(scene) : ExpectedTarget(scene[k], k) = NoTarget

\* two nodes selected, the first resolves to None, the second gives the result
C16_Witness ==
    /\ walk.pc = "done" /\ Len(scene) = 2
    /\ walk.results = <<NoTarget, walk.result>> /\ walk.result # NoTarget

\* C17: when the hop from an instance to its main component rejects or returns
\* nothing the resolution does not fail and goes on with the instance's
\* parent: the next node visited is the parent, or the node resolves to None
\* when there is no parent.
C17_InstanceFallback ==
    /\ walk.pc # "threw"
    /\ \A i \in 1..Len(walk.visited) :
          LET n == walk.visited[i][1]
              pos == walk.visited[i][2]
              item == scene[n][pos]
          IN  /\ item.type = "INSTANCE" /\ item.hop \in {"rejects", "null"}
              /\ ~(walk.pc = "hop" /\ i = Len(walk.visited))
              => IF pos < Len(scene[n])
                 THEN i < Len(walk.visited) /\ walk.visited[i + 1] = <<n, pos + 1>>
                 ELSE Len(walk.results) >= n /\ walk.results[n] = NoTarget

\* C18: every selected node that has been resolved got the target the rules
\* give: Group of the nearest component set, Group of the container of the
\* nearest component when that container is a component set and Single of the
\* component otherwise, the same for the main component of an instance, None
\* exactly when no node of the chain matches; no node is visited twice, so the
\* walk ends after at most as many steps as the chains have nodes.
C18_ResolutionRules ==
    /\ \A k \in 1..Len(walk.results) :
          /\ walk.results[k] = ExpectedTarget(scene[k], k)
          /\ walk.results[k] = NoTarget <=> FirstMatch(scene[k]) = 0
    /\ \A i, j \in 1..Len(walk.visited) : walk.visited[i] = walk.visited[j] => i = j
    /\ \A i \in 1..Len(walk.visited) :
          walk.visited[i][2] \in 1..Len(scene[walk.visited[i][1]])

\* a component inside a component set was reached through a frame: Group
C18_Witness ==
    /\ walk.pc = "done" /\ Len(scene) = 1 /\ Len(scene[1]) = 3
    /\ scene[1][1].type = "FRAME" /\ scene[1][2].type = "COMPONENT"
    /\ walk.result = GroupT(1, 3, "self")

\* ---- properties of resolvePreferredInstanceNames
\* the name entry i of refs resolved to (<<>>: none): its lookup was issued
\* and completed in time with a node that has a non-empty name
ResolvedName(refs, i) ==
    LET id == extractNodeIdFromPreferred(refs[i])
    IN  IF /\ id.t = "string" /\ id.v \in NodeIds
           /\ \E e \in 1..Len(entryLog) : entryLog[e].ref = i /\ entryLog[e].via = "value"
        THEN NodeName(id.v)
        ELSE <<>>

\* the resolved names of entries i.. in input order, later repeats removed
RECURSIVE FirstOccurrences(_, _, _)
FirstOccurrences(refs, i, acc) ==
    IF i > Len(refs) THEN acc
    ELSE LET name == ResolvedName(refs, i)
         IN  IF name = <<>> \/ InSeq(name, acc)
             THEN FirstOccurrences(refs, i + 1, acc)
             ELSE FirstOccurrences(refs, i + 1, Append(acc, name))

\* C19: resolvePreferredInstanceNames returns exactly the names of the entries
\* that resolved, in input order, each name once at its first occurrence;
\* malformed, failed, timed-out and nameless entries add nothing, and a
\* value that is not a list gives the empty list.
C19_PreferredNames ==
    (job.kind = "preferred" /\ rpc = "done") =>
        /\ result.t = "array"
        /\ result.v = (IF IsArray(job.arg) THEN FirstOccurrences(job.arg.v, 1, <<>>) ELSE <<>>)
        /\ \A i, j \in 1..Len(result.v) : result.v[i] = result.v[j] => i = j

\* two entries resolved to nodes of the same name: the name is returned once
C19_Witness ==
    /\ job.kind = "preferred" /\ rpc = "done"
    /\ Len(entryLog) = 2
    /\ entryLog[1].via = "value" /\ entryLog[2].via = "value"
    /\ lookups[1].id # lookups[2].id
    /\ result.v = <<<<"a">>>>

\* ---- properties of the legacy fallback
\* the members of the legacy set that carry definitions, by position
DefiningMembers(k) ==
    {i \in 1..Len(node.children) :
        /\ node.children[i].componentPropertyDefinitions.t = "object"
        /\ k \in KeysOf(node.children[i].componentPropertyDefinitions.entries)}

MemberKeys ==
    UNION {KeysOf(node.children[i].componentPropertyDefinitions.entries) :
              i \in {j \in 1..Len(node.children) :
                        node.children[j].componentPropertyDefinitions.t = "object"}}

\* the first member, in the given order, in which key k occurs
FirstMember(k) == CHOOSE i \in DefiningMembers(k) : \A j \in DefiningMembers(k) : i <= j

RECURSIVE NewEntries(_, _)
NewEntries(defs, seen) ==
    IF defs = <<>> THEN <<>>
    ELSE (IF Head(defs).key \in seen THEN <<>> ELSE <<Head(defs)>>)
         \o NewEntries(Tail(defs), seen)

\* the merged key set of the members as one definition map: every key once,
\* in the order in which the members first show it, with its first definition
RECURSIVE MergedEntries(_, _)
MergedEntries(comps, acc) ==
    IF comps = <<>> THEN acc
    ELSE LET cpd == Head(comps).componentPropertyDefinitions
         IN  MergedEntries(Tail(comps),
                 IF cpd.t = "undefined" THEN acc
                 ELSE acc \o NewEntries(cpd.entries, KeysOf(acc)))

\* C21: on the legacy path the order is the ordering heuristic applied to the
\* merged key set of the members: VARIANT keys of all members first, and a
\* "Has X" key next to "X" also when they come from different members.
C21_LegacyOrdering ==
    LegacyPath =>
        collected.order = HeuristicKeys(MergedEntries(node.children, <<>>))

\* ================================================================ Renderer
\* toMarkdownTarget and toJSONSummaryTarget.  A run of a renderer awaits its
\* lookups one after the other; lost is the set of node ids whose lookup is
\* rejected or outlived by the timer in that run.

MaxProps == 2

\* keys of the rendered definitions, by position
RenderKeys == <<KeyHasX, KeyX, KeyA, KeyX1>>

NoPreferred == [hasPreferred |-> FALSE, preferredValues |-> Undefined]

RenderShape(type, hasDefault, defaultValue, preferred, variantOptions) ==
    [type |-> type, hasDefault |-> hasDefault, defaultValue |-> defaultValue,
     hasPreferred |-> preferred.hasPreferred, preferredValues |-> preferred.preferredValues,
     variantOptions |-> variantOptions]

Preferred(a) == [hasPreferred |-> TRUE, preferredValues |-> JsArray(a)]

RenderShapes == {
    RenderShape("BOOLEAN", TRUE, JsBool(TRUE), NoPreferred, Undefined),
    RenderShape("TEXT", TRUE, JsString(<<"t">>), NoPreferred, Undefined),
    RenderShape("TEXT", TRUE, JsString(<<>>), NoPreferred, Undefined),
    RenderShape("NUMBER", FALSE, Undefined, NoPreferred, Undefined),
    RenderShape("INSTANCE_SWAP", TRUE, JsString(<<"1">>),
                Preferred(<<JsString(<<"1">>), JsString(<<"3">>)>>), Undefined),
    RenderShape("INSTANCE_SWAP", TRUE, JsString(<<"9">>),
                Preferred(<<JsString(<<"1">>), JsString(<<"2">>)>>), Undefined),
    RenderShape("INSTANCE_SWAP", FALSE, Undefined, NoPreferred, Undefined),
    RenderShape("VARIANT", TRUE, JsString(<<"L">>), NoPreferred, JsArray(<<<<"L">>, <<"M">>>>)),
    RenderShape("VARIANT", FALSE, Undefined, NoPreferred, JsArray(<<>>)) }

RenderDefs ==
    UNION { {[i \in 1..m |-> RawDef(RenderKeys[i], f[i])] : f \in [1..m -> RenderShapes]} :
              m \in 0..MaxProps }

RenderTargets ==
    {ComponentNode(DefsObject(d)) : d \in RenderDefs}
    \cup {ComponentSetNode(DefsObject(d), <<ComponentNode(NoDefs), ComponentNode(NoDefs)>>) :
             d \in RenderDefs}

\* the lookups that can be lost in a run
LostSets == {{}, {<<"1">>}}

\* target.set!.name / target.component!.name
TargetName(target) == IF target.type = "COMPONENT_SET" THEN <<"S">> ELSE <<"C">>

\* mutant: what a lookup yields depends on the runs made before
AwaitedOnce(id, lost) ==
    IF id \in lost \/ Len(render.md) + Len(render.json) > 1 THEN Undefined ELSE FoundNode(id)

\* what await withTimeout(figma.getNodeByIdAsync(id)) yields
Awaited(id, lost) == IF id \in lost THEN Undefined ELSE FoundNode(id)

\* resolveSwapName as a function of the lookup outcomes
resolveSwapName(id, lost) ==
    IF Malformed(id) THEN JsNull
    ELSE IF ThrowsSync(id.v) THEN JsNull
    ELSE NameOf(Awaited(id.v, lost))

\* the for loop of resolvePreferredInstanceNames
RECURSIVE preferredLoop(_, _, _)
preferredLoop(refs, ns, lost) ==
    IF refs = <<>> THEN ns
    ELSE LET id == extractNodeIdFromPreferred(Head(refs))
         IN  preferredLoop(Tail(refs),
                 IF Malformed(id) \/ ThrowsSync(id.v) THEN ns
                 ELSE PushName(ns, NameOf(Awaited(id.v, lost))),
                 lost)

\* resolvePreferredInstanceNames as a function of the lookup outcomes
resolvePreferredInstanceNames(pref, lost) ==
    IF ~IsArray(pref) THEN <<>> ELSE preferredLoop(pref.v, <<>>, lost)

\* mutant: every string counts, the empty one included
TruthyLoose(v) == v.t = "string"

\* a string that is truthy
Truthy(v) == v.t = "string" /\ v.v # <<>>

Digits == <<"0", "1", "2", "3", "4", "5", "6", "7", "8", "9">>

\* String(n) for a natural number: its decimal digits
RECURSIVE NumStr(_)
NumStr(n) ==
    IF n < 10 THEN <<Digits[n + 1]>>
    ELSE NumStr(n \div 10) \o <<Digits[(n % 10) + 1]>>

\* String(v) / `${v}`
ToStr(v) ==
    CASE v.t = "string" -> v.v
      [] v.t = "boolean" -> IF v.v THEN <<"true">> ELSE <<"false">>
      [] v.t = "number" -> NumStr(v.v)
      [] v.t = "null" -> <<"null">>
      [] OTHER -> <<"undefined">>

\* parts.join(sep)
RECURSIVE JoinWith(_, _)
JoinWith(parts, sep) ==
    IF parts = <<>> THEN <<>>
    ELSE IF Len(parts) = 1 THEN Head(parts)
    ELSE Head(parts) \o <<sep>> \o JoinWith(Tail(parts), sep)

\* kind.replace('_', ' ')
KindLabel(kind) == IF kind = "INSTANCE_SWAP" THEN "INSTANCE SWAP" ELSE kind

\* prefNames of toMarkdownTarget
MdPrefNames(d, lost) ==
    IF IsArray(d.preferredInstanceNames) /\ Len(d.preferredInstanceNames.v) > 0
    THEN d.preferredInstanceNames.v
    ELSE IF IsArray(d.preferredValuesRaw)
    THEN resolvePreferredInstanceNames(d.preferredValuesRaw, lost)
    ELSE <<>>

\* the lines pushed for one property by the loop of toMarkdownTarget
MdProp(d, lost) ==
    LET title == <<"[", KindLabel(d.type), "] **">> \o d.name \o <<"**", "  ">>
        defaultLine(text) == <<<<"Default: ">> \o text>>
        body ==
            CASE d.type = "BOOLEAN" ->
                    <<<<"Values: True / False">>>>
                    \o (IF d.defaultValue.t = "boolean"
                        THEN defaultLine(ToStr(d.defaultValue)) ELSE <<>>)
              [] d.type \in {"TEXT", "NUMBER"} ->
                    IF /\ d.defaultValue.t \notin {"undefined", "null"}
                       /\ ToStr(d.defaultValue) # <<>>
                    THEN defaultLine(ToStr(d.defaultValue)) ELSE <<>>
              [] d.type = "INSTANCE_SWAP" ->
                    LET resolved == resolveSwapName(d.defaultValue, lost)
                        prefNames == MdPrefNames(d, lost)
                    IN  (IF Truthy(resolved) THEN defaultLine(resolved.v)
                         ELSE IF Truthy(d.defaultValue) THEN defaultLine(d.defaultValue.v)
                         ELSE <<>>)
                        \o (IF Len(prefNames) > 0
                            THEN <<<<"Preferred Instances (">> \o NumStr(Len(prefNames))
                                   \o <<"): ">> \o JoinWith(prefNames, ", ")>>
                            ELSE IF d.preferredValuesCount.t = "number"
                            THEN <<<<"Preferred Instances (">> \o ToStr(d.preferredValuesCount)
                                   \o <<")">>>>
                            ELSE <<>>)
              [] d.type = "VARIANT" ->
                    LET vals == IF IsArray(d.variantOptions) THEN d.variantOptions.v ELSE <<>>
                    IN  IF Len(vals) > 0
                        THEN <<<<"Values: ">> \o JoinWith(vals, ", ")>> ELSE <<>>
              [] OTHER -> <<>>
    IN  <<title>> \o body \o << <<>> >>

\* mutant: the stanzas are written from the last key to the first
RECURSIVE MdPropsReversed(_, _, _)
MdPropsReversed(order, defs, lost) ==
    IF order = <<>> THEN <<>>
    ELSE MdPropsReversed(Tail(order), defs, lost) \o MdProp(defs[Head(order)], lost)

\* for (const key of order) { ... } of toMarkdownTarget
RECURSIVE MdProps(_, _, _)
MdProps(order, defs, lost) ==
    IF order = <<>> THEN <<>>
    ELSE MdProp(defs[Head(order)], lost) \o MdProps(Tail(order), defs, lost)

\* isSet ? collectComponentPropsWithOrder(set) : collectPropsFromComponent(component)
CollectedOf(target) ==
    IF target.type = "COMPONENT_SET" THEN collectComponentPropsWithOrder(target)
    ELSE collectPropsFromComponent(target)

\* isSet ? set.children.filter(n => n.type === 'COMPONENT').length : 1
VariantCount(target) ==
    IF target.type = "COMPONENT_SET" THEN Len(ComponentChildren(target.children)) ELSE 1

\* the text returned by toMarkdownTarget: lines.join('\n')
toMarkdownTarget(target, lost) ==
    LET c == CollectedOf(target)
        lines == << <<"# ">> \o TargetName(target),
                    <<>>,
                    <<"## Overview">>,
                    <<"- Variants: ">> \o NumStr(VariantCount(target)),
                    <<"- Component Properties: ">> \o NumStr(Len(c.order)),
                    <<>>,
                    <<"## Component Props">> >>
                 \o MdProps(c.order, c.defs, lost)
    IN  JoinWith(lines, "\n")

\* JSON.stringify of an object given as <<field, value>> pairs: a field that
\* holds undefined is left out; null, '' and [] are written
RECURSIVE Stringify(_)
Stringify(pairs) ==
    IF pairs = <<>> THEN <<>>
    ELSE (IF Head(pairs)[2].t = "undefined" THEN <<>> ELSE <<Head(pairs)>>)
         \o Stringify(Tail(pairs))

\* one element of payload.componentProps
JsonProp(d) ==
    Stringify(<< <<"name", JsString(d.name)>>, <<"type", JsString(<<d.type>>)>>,
                 <<"defaultValue", d.defaultValue>>,
                 <<"preferredValuesCount", d.preferredValuesCount>>,
                 <<"preferredValuesRaw", d.preferredValuesRaw>>,
                 <<"preferredInstanceNames", d.preferredInstanceNames>>,
                 <<"variantOptions", d.variantOptions>> >>)

\* prefNames of toJSONSummaryTarget
JsonPrefNames(d, lost) ==
    IF IsArray(d.preferredInstanceNames) THEN d.preferredInstanceNames.v
    ELSE IF IsArray(d.preferredValuesRaw)
    THEN resolvePreferredInstanceNames(d.preferredValuesRaw, lost)
    ELSE <<>>

\* one element of pretty.componentProps; a field never assigned is undefined
PrettyProp(d, lost) ==
    LET resolved == resolveSwapName(d.defaultValue, lost)
        prefNames == JsonPrefNames(d, lost)
        default ==
            CASE d.type \in {"BOOLEAN", "TEXT", "NUMBER"} -> d.defaultValue
              [] d.type = "INSTANCE_SWAP" ->
                    IF Truthy(resolved) THEN resolved
                    ELSE IF d.defaultValue.t = "string" THEN d.defaultValue
                    ELSE JsNull
              [] OTHER -> Undefined
        count == IF d.type = "INSTANCE_SWAP" /\ d.preferredValuesCount.t = "number"
                 THEN d.preferredValuesCount ELSE Undefined
        instances == IF d.type = "INSTANCE_SWAP" /\ Len(prefNames) > 0
                     THEN JsArray(prefNames) ELSE Undefined
        values == IF d.type = "VARIANT" /\ IsArray(d.variantOptions)
                  THEN d.variantOptions ELSE Undefined
    IN  Stringify(<< <<"name", JsString(d.name)>>, <<"type", JsString(<<d.type>>)>>,
                     <<"default", default>>,
                     <<"preferredInstancesCount", count>>,
                     <<"preferredInstances", instances>>,
                     <<"values", values>> >>)

\* the text returned by toJSONSummaryTarget, kept as the tree it denotes
toJSONSummaryTarget(target, lost) ==
    LET c == CollectedOf(target)
    IN  [name |-> TargetName(target),
         overview |-> [variantsCount |-> VariantCount(target),
                       componentPropsCount |-> Len(c.order)],
         componentProps |-> [i \in 1..Len(c.order) |-> JsonProp(c.defs[c.order[i]])],
         pretty |-> [componentProps |->
                        [i \in 1..Len(c.order) |-> PrettyProp(c.defs[c.order[i]], lost)]]]

\* one more run of toMarkdownTarget on the target
RenderMarkdown ==
    /\ Len(render.md) < 2
    /\ \E lost \in LostSets :
          render' = [render EXCEPT !.md = Append(@, [lost |-> lost,
                                                     order |-> CollectedOf(node).order,
                                                     out |-> toMarkdownTarget(node, lost)])]
    /\ collected' = CollectedOf(node)
    /\ UNCHANGED <<node, resolveVars, handlerVars, targetVars>>

\* one more run of toJSONSummaryTarget on the target
RenderJSON ==
    /\ Len(render.json) < 2
    /\ \E lost \in LostSets :
          render' = [render EXCEPT !.json = Append(@, [lost |-> lost,
                                                       order |-> CollectedOf(node).order,
                                                       out |-> toJSONSummaryTarget(node, lost)])]
    /\ collected' = CollectedOf(node)
    /\ UNCHANGED <<node, resolveVars, handlerVars, targetVars>>

InitRender ==
    /\ node \in RenderTargets /\ collected = NoResult
    /\ ResolveIdle /\ HandlersIdle /\ TargetIdle /\ RenderIdle

NextRender == RenderMarkdown \/ RenderJSON

SpecRender == InitRender /\ [][NextRender]_vars

\* ---- properties of the renderers
\* text.split(sep)
SplitOn(text, sep, cur) ==
    LET seps == {i \in 1..Len(text) : text[i] = sep}
        n == Cardinality(seps)
        \* the position of separator k; 0 before the first, past the end after the last
        at(k) == IF k = 0 THEN 0
                 ELSE IF k > n THEN Len(text) + 1
                 ELSE CHOOSE i \in seps : Cardinality({j \in seps : j < i}) = k - 1
    IN  [k \in 1..(n + 1) |->
            (IF k = 1 THEN cur ELSE <<>>) \o SubSeq(text, at(k - 1) + 1, at(k) - 1)]

\* the stanzas of a textual document: the groups of lines closed by an empty line
RECURSIVE Stanzas(_, _)
Stanzas(lines, cur) ==
    IF lines = <<>> THEN <<>>
    ELSE IF Head(lines) = <<>> THEN <<cur>> \o Stanzas(Tail(lines), <<>>)
    ELSE Stanzas(Tail(lines), Append(cur, Head(lines)))

\* the line of a stanza that starts with tag, <<>> when there is none
TaggedLine(stanza, tag) ==
    IF \E i \in 2..Len(stanza) : Head(stanza[i]) = tag
    THEN stanza[CHOOSE i \in 2..Len(stanza) : Head(stanza[i]) = tag]
    ELSE <<>>

NoDefault == [has |-> FALSE, text |-> <<>>]

\* what one stanza of the textual document says about its property
StanzaContent(stanza) ==
    LET title == stanza[1]
        def == TaggedLine(stanza, "Default: ")
        pref == TaggedLine(stanza, "Preferred Instances (")
        vals == TaggedLine(stanza, "Values: ")
    IN  [name |-> SubSeq(title, 4, Len(title) - 2),
         kind |-> IF title[2] = "INSTANCE SWAP" THEN "INSTANCE_SWAP" ELSE title[2],
         default |-> IF def = <<>> THEN NoDefault ELSE [has |-> TRUE, text |-> Tail(def)],
         names |-> IF pref # <<>> /\ pref[3] = "): "
                   THEN SplitOn(SubSeq(pref, 4, Len(pref)), ", ", <<>>) ELSE <<>>,
         count |-> IF pref = <<>> THEN "none" ELSE pref[2],
         options |-> IF vals = <<>> THEN <<>> ELSE SplitOn(Tail(vals), ", ", <<>>)]

\* what a textual document says
MdContent(md) ==
    LET lines == SplitOn(md, "\n", <<>>)
        stanzas == Stanzas(SubSeq(lines, 8, Len(lines)), <<>>)
    IN  [name |-> Tail(lines[1]),
         members |-> lines[4][2],
         properties |-> lines[5][2],
         props |-> [i \in 1..Len(stanzas) |-> StanzaContent(stanzas[i])]]

\* obj[field] of a stringified object, undefined when the field is not there
Field(pairs, field) ==
    IF \E i \in 1..Len(pairs) : pairs[i][1] = field
    THEN pairs[CHOOSE i \in 1..Len(pairs) : pairs[i][1] = field][2]
    ELSE Undefined

\* what one pretty property of the structured document says; a default that
\* is missing, null or the empty string is no default
PrettyContent(pairs) ==
    LET def == Field(pairs, "default")
        cnt == Field(pairs, "preferredInstancesCount")
        ins == Field(pairs, "preferredInstances")
        vals == Field(pairs, "values")
    IN  [name |-> Field(pairs, "name").v,
         kind |-> Field(pairs, "type").v[1],
         default |-> IF def.t \in {"undefined", "null"} \/ ToStr(def) = <<>>
                     THEN NoDefault ELSE [has |-> TRUE, text |-> ToStr(def)],
         names |-> IF IsArray(ins) THEN ins.v ELSE <<>>,
         count |-> IF cnt.t = "number" THEN NumStr(cnt.v)[1] ELSE "none",
         options |-> IF IsArray(vals) THEN vals.v ELSE <<>>]

\* what a structured document says
JsonContent(json) ==
    [name |-> json.name,
     members |-> NumStr(json.overview.variantsCount)[1],
     properties |-> NumStr(json.overview.componentPropsCount)[1],
     props |-> [i \in 1..Len(json.pretty.componentProps) |->
                   PrettyContent(json.pretty.componentProps[i])]]

\* C22: a textual and a structured document rendered from the same target
\* under the same lookup outcomes say the same: subject name, member count,
\* property count, and per property, in the same order, the same name, kind,
\* default, preferred names, preferred count and options.
C22_RendererAgreement ==
    \A i \in 1..Len(render.md), j \in 1..Len(render.json) :
        render.md[i].lost = render.json[j].lost
            => MdContent(render.md[i].out) = JsonContent(render.json[j].out)

\* the fields of a pretty property that mean something for its kind
MeaningfulFields(kind) ==
    {"name", "type"} \cup
    CASE kind \in {"BOOLEAN", "TEXT", "NUMBER"} -> {"default"}
      [] kind = "INSTANCE_SWAP" -> {"default", "preferredInstances", "preferredInstancesCount"}
      [] kind = "VARIANT" -> {"values"}
      [] OTHER -> {}

\* null, the empty string or the empty list
EmptyValue(v) == v.t = "null" \/ (v.t \in {"string", "array"} /\ v.v = <<>>)

\* C23: every property of the pretty projection carries only the fields that
\* mean something for its kind, and no field holds null, an empty string or
\* an empty list: what is absent or empty is left out.
C23_PrettyOmitsAbsent ==
    \A j \in 1..Len(render.json) :
        \A i \in 1..Len(render.json[j].out.pretty.componentProps) :
            LET pairs == render.json[j].out.pretty.componentProps[i]
            IN  \A k \in 1..Len(pairs) :
                    /\ pairs[k][1] \in MeaningfulFields(Field(pairs, "type").v[1])
                    /\ ~EmptyValue(pairs[k][2])

\* the orders the runs of both renderers worked on
RunOrders ==
    {render.md[i].order : i \in 1..Len(render.md)}
    \cup {render.json[j].order : j \in 1..Len(render.json)}

BatchEventTypes ==
    {"busy", "scan-start", "scan-tick", "scan-complete", "gen-start", "gen-tick", "gen-complete"}

\* the batch events h has posted, in order, without the documents they carry
BatchEvents(h) ==
    LET evs == SelectSeq(posted[h], LAMBDA msg : msg.type \in BatchEventTypes)
    IN  [k \in 1..Len(evs) |->
            IF evs[k].type = "gen-complete" THEN [type |-> "gen-complete"]
            ELSE IF evs[k].type = "scan-complete"
            THEN [type |-> "scan-complete", total |-> evs[k].total]
            ELSE evs[k]]

\* the events of an export request over the targets sets, from first to last
ExpectedEvents(sets) ==
    LET N == Len(sets)
    IN  <<Busy(TRUE), ScanStart(N)>>
        \o [i \in 1..N |-> ScanTick(i, N, sets[i])]
        \o <<[type |-> "scan-complete", total |-> N], GenStart(N)>>
        \o [i \in 1..N |-> GenTick(i, N, sets[i])]
        \o <<[type |-> "gen-complete"], Busy(FALSE)>>

IsPrefix(a, b) == Len(a) <= Len(b) /\ a = SubSeq(b, 1, Len(a))

\* the scan of h has found its targets
Discovered(h) == \E k \in 1..Len(posted[h]) : posted[h][k].type = "scan-start"

\* C25: the events of an export request over the N discovered targets are, in
\* this order, busy(true), scan-start(N), scan-tick 1..N in discovery order,
\* scan-complete, gen-start(N), gen-tick 1..N, one gen-complete, busy(false):
\* what has been posted so far is always a beginning of that sequence, and
\* the whole of it once the request has ended.
C25_BatchEventOrder ==
    \A h \in Slots :
        hs[h].kind = "export" /\ Discovered(h) =>
            /\ IsPrefix(BatchEvents(h), ExpectedEvents(doc))
            /\ ~Running(h) => BatchEvents(h) = ExpectedEvents(doc)

\* an export over three targets, the second of which raised, has ended
C25_Witness ==
    \E h \in Slots :
        /\ hs[h].kind = "export" /\ hs[h].pc = "done" /\ Discovered(h)
        /\ Len(doc) = 3 /\ 2 \in failing
        /\ Len(BatchEvents(h)) = 12

\* ---- the aggregate document
\* the totals h has announced for its run
Totals(h) ==
    {posted[h][k].total : k \in {n \in 1..Len(posted[h]) :
                                    posted[h][n].type \in {"scan-start", "gen-start", "progress"}}}

\* C26: the aggregate document of a batch run lists the discovered targets in
\* discovery order, one entry each: in the structured wrapper count is the
\* number of items and the total discovered, item i being the parsed document
\* of target i or its {name, error} record; in the textual format entry i is
\* the document of target i or its "failed, skipped" stanza, and consecutive
\* entries are joined by the separator.
C26_AggregateOrder ==
    \A h \in Slots :
        \A k \in 1..Len(Aggregates(h)) :
            LET content == Aggregates(h)[k].content
                sets == hs[h].sets
                N == Len(sets)
            IN  /\ hs[h].kind \in {"export", "export-all"} => sets = doc
                /\ \A t \in Totals(h) : t = N
                /\ Aggregates(h)[k].format = "json" =>
                      /\ content.count = Len(content.items)
                      /\ content.count = N
                      /\ \A i \in 1..N :
                            content.items[i] =
                                IF sets[i] \in failing THEN JsonError(sets[i])
                                ELSE JsonParse(JsonOf(sets[i]))
                /\ Aggregates(h)[k].format = "md" =>
                      /\ Len(content) = (IF N = 0 THEN 0 ELSE 2 * N - 1)
                      /\ \A i \in 1..N :
                            content[2 * i - 1] =
                                IF sets[i] \in failing THEN MdFailed(sets[i]) ELSE MdOf(sets[i])
                      /\ \A i \in 1..(N - 1) : content[2 * i] = Separator

\* a textual aggregate over three targets the first of which raised
C26_Witness ==
    \E h \in Slots :
        /\ Len(Aggregates(h)) = 1 /\ Aggregates(h)[1].format = "md"
        /\ Len(hs[h].sets) = 3 /\ failing = {1}
        /\ Len(Aggregates(h)[1].content) = 5
        /\ Aggregates(h)[1].content[1] = MdFailed(1)

\* ---- the state of a batch run
HasAggregate(msgs) == \E k \in 1..Len(msgs) : msgs[k].type = "gen-complete"

\* h posts gen-complete in this step
EmitsAggregate(h) ==
    /\ hs'[h] # hs[h]
    /\ HasAggregate(posted'[h])
    /\ Started(h) \/ ~HasAggregate(posted[h])

\* C27: the step in which a batch run emits its aggregate document discards
\* the list of discovered targets: once gen-complete is posted the scan cache
\* is empty, so that a later generate-all or generate request that no scan
\* precedes finds no target of the earlier run.
C27_BatchStateDiscarded ==
    [][\A h \in Slots : EmitsAggregate(h) => scanCache' = <<>>]_vars

\* ======================================== the collector on every kind
\* Raw definitions of every kind, with and without a default and with and
\* without an option list, handed to the collector on its three paths.

Kinds == {"BOOLEAN", "TEXT", "NUMBER", "INSTANCE_SWAP", "VARIANT"}

\* a default of the kind's type
DefaultOf(kind) ==
    CASE kind = "BOOLEAN" -> JsBool(TRUE)
      [] kind = "NUMBER" -> JsNumber(5)
      [] kind = "INSTANCE_SWAP" -> JsString(<<"1">>)
      [] OTHER -> JsString(<<"L">>)

KindShapes ==
    {RenderShape(kind, hasDefault, IF hasDefault THEN DefaultOf(kind) ELSE Undefined,
                 NoPreferred, options) :
        kind \in Kinds, hasDefault \in BOOLEAN,
        options \in {Undefined, JsArray(<<<<"L">>, <<"M">>>>)}}

KindDefs ==
    UNION { {[i \in 1..m |-> RawDef(RenderKeys[i], f[i])] : f \in [1..m -> KindShapes]} :
              m \in 0..MaxMemberKeys }

\* collectComponentPropsWithOrder on a set with set-level definitions
CollectKindsSet ==
    /\ node = NoNode
    /\ \E d \in KindDefs :
          /\ node' = ComponentSetNode(DefsObject(d), <<>>)
          /\ collected' = collectComponentPropsWithOrder(node')
    /\ UNCHANGED <<resolveVars, handlerVars, targetVars, renderVars>>

\* collectComponentPropsWithOrder on a legacy set with one defining member
CollectKindsLegacy ==
    /\ node = NoNode
    /\ \E d \in KindDefs :
          /\ node' = ComponentSetNode(NoDefs, <<ComponentNode(DefsObject(d))>>)
          /\ collected' = collectComponentPropsWithOrder(node')
    /\ UNCHANGED <<resolveVars, handlerVars, targetVars, renderVars>>

\* collectPropsFromComponent on a single component
CollectKindsSingle ==
    /\ node = NoNode
    /\ \E d \in KindDefs :
          /\ node' = ComponentNode(DefsObject(d))
          /\ collected' = collectPropsFromComponent(node')
    /\ UNCHANGED <<resolveVars, handlerVars, targetVars, renderVars>>

NextKinds == CollectKindsSet \/ CollectKindsLegacy \/ CollectKindsSingle

SpecKinds == InitCollect /\ [][NextKinds]_vars

\* the raw definitions the collector read
RawEntries ==
    IF LegacyPath
    THEN (IF node.children = <<>> THEN <<>>
          ELSE node.children[1].componentPropertyDefinitions.entries)
    ELSE IF DirectPath THEN InputEntries
    ELSE <<>>

\* C28: no definition the collector produces carries variantOptions unless
\* its kind is VARIANT, on the set-level path, the legacy path and the
\* single-component path.
C28_OptionsOnlyForVariant ==
    \A k \in DOMAIN collected.defs :
        collected.defs[k].variantOptions # Undefined => collected.defs[k].type = "VARIANT"

\* C29: no definition of kind VARIANT the collector produces has a
\* defaultValue, whatever default the raw definition carries, on the
\* set-level path, the legacy path and the single-component path.
C29_NoDefaultForVariant ==
    \A k \in DOMAIN collected.defs :
        collected.defs[k].type = "VARIANT" => collected.defs[k].defaultValue = Undefined

\* a VARIANT definition that carries a default, met on the legacy path
C29_Witness ==
    /\ LegacyPath
    /\ \E i \in 1..Len(RawEntries) :
          /\ RawEntries[i].type = "VARIANT" /\ RawEntries[i].hasDefault
          /\ RawEntries[i].defaultValue = JsString(<<"L">>)
          /\ RawEntries[i].key \in DOMAIN collected.defs

\* ---- the empty workspace
\* the status messages h has posted
Statuses(h) == SelectSeq(posted[h], LAMBDA msg : msg.type = "status")

FailureStatuses ==
    {"Export failed", "Scan failed", "Generate failed", "Error while generating",
     "Copy failed", "Failed to generate"}

\* the aggregate of no target: the empty text, or a wrapper of no items
EmptyAggregate(fmt, content) ==
    IF fmt = "md" THEN content = EmptyText
    ELSE content.count = 0 /\ content.items = <<>>

\* h is a batch request whose scan of the workspace found nothing
FoundNothing(h) ==
    /\ hs[h].kind \in {"export", "export-all"}
    /\ scans[h] # <<>> /\ doc = <<>>

\* C30: a batch request (export-md / export-json, export-all) whose scan finds
\* no component set ends without an error status, with one aggregate of empty
\* or zero output, and with an informational status.
C30_EmptyWorkspace ==
    \A h \in Slots :
        FoundNothing(h) =>
            /\ hs[h].pc = "done"
            /\ \A k \in 1..Len(Statuses(h)) : Statuses(h)[k].message \notin FailureStatuses
            /\ Len(Aggregates(h)) = 1
            /\ EmptyAggregate(hs[h].fmt, Aggregates(h)[1].content)
            /\ Statuses(h) # <<>>

\* ================================================================ Scenario A
\* The group "Button": 105 members, definitions in the host order
\* Has Left Icon, Left Icon, Text, Size#1, Variant#2.

KeyHasLeftIcon == <<"H", "a", "s", " ", "L", "e", "f", "t", " ", "I", "c", "o", "n">>
KeyLeftIcon == <<"L", "e", "f", "t", " ", "I", "c", "o", "n">>
KeyText == <<"T", "e", "x", "t">>
KeySize1 == <<"S", "i", "z", "e", "#", "1">>
KeyVariant2 == <<"V", "a", "r", "i", "a", "n", "t", "#", "2">>

ButtonDefs ==
    << RawDef(KeyHasLeftIcon, RenderShape("BOOLEAN", TRUE, JsBool(TRUE), NoPreferred, Undefined)),
       RawDef(KeyLeftIcon, RenderShape("INSTANCE_SWAP", TRUE, JsString(<<"1">>),
                                       Preferred(<<JsString(<<"1">>), JsString(<<"2">>)>>),
                                       Undefined)),
       RawDef(KeyText, RenderShape("TEXT", TRUE, JsString(<<"t">>), NoPreferred, Undefined)),
       RawDef(KeySize1, RenderShape("VARIANT", TRUE, JsString(<<"L">>), NoPreferred,
                                    JsArray(<<<<"L">>, <<"M">>>>))),
       RawDef(KeyVariant2, RenderShape("VARIANT", TRUE, JsString(<<"L">>), NoPreferred,
                                       JsArray(<<<<"L">>, <<"M">>>>))) >>

ButtonSet ==
    ComponentSetNode(DefsObject(ButtonDefs), [i \in 1..105 |-> ComponentNode(NoDefs)])

InitScenario ==
    /\ node \in RenderTargets \cup {ButtonSet} /\ collected = NoResult
    /\ ResolveIdle /\ HandlersIdle /\ TargetIdle /\ RenderIdle

SpecScenario == InitScenario /\ [][NextRender]_vars

\* the names in the stanza titles of a textual document, in document order
StanzaNames(md) ==
    LET props == MdContent(md).props
    IN  [i \in 1..Len(props) |-> props[i].name]

\* the number written on line n of the overview
OverviewNumber(md, n) == Tail(SplitOn(md, "\n", <<>>)[n])

CleanNames(order) == [i \in 1..Len(order) |-> cleanPropName(order[i])]

InPos(k) == CHOOSE i \in 1..Len(InputEntries) : InputEntries[i].key = k

\* entry i is the one hasMap keeps for its display name: the last entry of
\* another kind than VARIANT with that name
KeptByHasMap(i) ==
    \A j \in (i + 1)..Len(InputEntries) :
        InputEntries[j].type # "VARIANT"
            => cleanPropName(InputEntries[j].key) # cleanPropName(InputEntries[i].key)

\* entry i is pushed ahead of its own turn, as the "Has " counterpart of an
\* earlier entry that is itself pushed at its own turn
RECURSIVE PulledForward(_)
PulledForward(i) ==
    /\ InputEntries[i].type # "VARIANT"
    /\ KeptByHasMap(i)
    /\ \E j \in 1..(i - 1) :
          /\ InputEntries[j].type # "VARIANT"
          /\ cleanPropName(InputEntries[i].key) = HasPrefix \o cleanPropName(InputEntries[j].key)
          /\ ~PulledForward(j)

\* C32: on the set-level and single-component paths the VARIANT keys keep
\* their relative input order, and so do the keys of the other kinds that
\* are not pushed ahead as the "Has " counterpart of another key.
C32_RelativeOrder ==
    DirectPath =>
        \A a, b \in 1..Len(InputEntries) :
            LET ka == InputEntries[a].key
                kb == InputEntries[b].key
                va == InputEntries[a].type = "VARIANT"
                vb == InputEntries[b].type = "VARIANT"
            IN  (/\ a < b
                 /\ \/ va /\ vb
                    \/ ~va /\ ~vb /\ ~PulledForward(a) /\ ~PulledForward(b))
                    => Pos(ka) < Pos(kb)

\* C32 witness: X, A, Has X in the input; Has X is pushed ahead of X, and X
\* stays before A although A sorts first by name
C32_Witness ==
    /\ DirectPath
    /\ Len(InputEntries) = 3
    /\ InputEntries[1].key = KeyX /\ InputEntries[2].key = KeyA
    /\ InputEntries[3].key = KeyHasX
    /\ \A i \in 1..3 : InputEntries[i].type # "VARIANT"
    /\ PulledForward(3)
    /\ collected.order = <<KeyHasX, KeyX, KeyA>>

\* ================================================================ Generation run
\* One ui-generate-all request over the cached sets, with the lookups its
\* renders await.  A step runs the code from one host completion (or the
\* request) to the next await of a lookup, or to the end of the handler.

\* the sets __exportScanCache can hold; findAll returns each set once
RunTargets ==
    { ComponentSetNode(DefsObject(<<
          RawDef(KeyX, RenderShape("INSTANCE_SWAP", TRUE, JsString(<<"1">>),
                                   Preferred(<<JsString(<<"2">>), JsNull>>), Undefined)) >>), <<>>),
      ComponentSetNode(DefsObject(<<
          RawDef(KeyX, RenderShape("INSTANCE_SWAP", TRUE, JsString(<<"8">>),
                                   Preferred(<<JsObject("id", <<"3">>)>>), Undefined)) >>), <<>>),
      ComponentSetNode(DefsObject(<<
          RawDef(KeyA, RenderShape("TEXT", TRUE, JsString(<<"t">>), NoPreferred, Undefined)) >>),
          <<>>) }

\* the references one property makes the renderer resolve, in the order of
\* the calls: resolveSwapName(d.defaultValue), then the entries of
\* d.preferredValuesRaw unless d.preferredInstanceNames already has names
PropRefs(d, fmt) ==
    IF d.type # "INSTANCE_SWAP" THEN <<>>
    ELSE <<d.defaultValue>>
         \o (IF /\ IsArray(d.preferredInstanceNames)
                /\ (fmt = "json" \/ Len(d.preferredInstanceNames.v) > 0)
             THEN <<>>
             ELSE IF IsArray(d.preferredValuesRaw)
             THEN [k \in 1..Len(d.preferredValuesRaw.v) |->
                      extractNodeIdFromPreferred(d.preferredValuesRaw.v[k])]
             ELSE <<>>)

RECURSIVE OrderRefs(_, _, _)
OrderRefs(order, defs, fmt) ==
    IF order = <<>> THEN <<>>
    ELSE PropRefs(defs[Head(order)], fmt) \o OrderRefs(Tail(order), defs, fmt)

\* the references of one render of target
RenderRefs(target, fmt) ==
    LET c == CollectedOf(target)
    IN  OrderRefs(c.order, c.defs, fmt)

\* a reference for which getNodeByIdAsync is called and awaited
Awaits(ref) == ~Malformed(ref) /\ ~ThrowsSync(ref.v)

\* the first reference from j on that is awaited (Len + 1: the render returns)
RECURSIVE NextAwait(_, _)
NextAwait(refs, j) ==
    IF j > Len(refs) THEN j
    ELSE IF Awaits(refs[j]) THEN j
    ELSE NextAwait(refs, j + 1)

\* mutant: the tick of the next pass is posted as soon as a pass awaits
RECURSIVE RunFromEager(_, _)
RunFromEager(m, j) ==
    LET refs == RenderRefs(m.hr.sets[m.hr.i], m.hr.fmt)
        k == NextAwait(refs, j)
    IN  IF k <= Len(refs)
        THEN [m |-> IF m.hr.i < Len(m.hr.sets)
                    THEN PostM(m, <<TickOf(m, m.hr.i + 1)>>) ELSE m,
              await |-> k]
        ELSE LET m1 == GenStep(m, TRUE)
             IN  IF m1.hr.pc = "gen" THEN RunFromEager(m1, 1) ELSE [m |-> m1, await |-> 0]

\* the generation loop from reference j of pass m.hr.i on, up to the next
\* awaited lookup (await: its position) or to the end of the handler (0)
RECURSIVE RunFrom(_, _)
RunFrom(m, j) ==
    LET refs == RenderRefs(m.hr.sets[m.hr.i], m.hr.fmt)
        k == NextAwait(refs, j)
    IN  IF k <= Len(refs) THEN [m |-> m, await |-> k]
        ELSE LET m1 == GenStep(m, TRUE)
             IN  IF m1.hr.pc = "gen" THEN RunFrom(m1, 1) ELSE [m |-> m1, await |-> 0]

RunEntry(item, j, t) ==
    [item |-> item, ref |-> j, issuedAt |-> t, settledAt |-> -1, via |-> "pending"]

\* the state after the step that ends as r says; lks and log are the lookups
\* and the log once the completion that started the step is recorded
CommitRun(h, r, new, lks, log) ==
    LET m == r.m
        refs == RenderRefs(m.hr.sets[m.hr.i], m.hr.fmt)
    IN  /\ busy' = m.busy
        /\ scanAllowed' = m.scanAllowed
        /\ scanCache' = m.scanCache
        /\ scanFormat' = m.scanFormat
        /\ hs' = [hs EXCEPT ![h] = m.hr]
        /\ posted' = [posted EXCEPT ![h] = IF new THEN m.out ELSE @ \o m.out]
        /\ nreq' = IF new THEN nreq + 1 ELSE nreq
        /\ IF r.await > 0
           THEN /\ rpc' = "await" /\ idx' = r.await
                /\ job' = [kind |-> "render", arg |-> JsArray(refs), item |-> m.hr.i, h |-> h]
                /\ lookups' = Append(lks, NewLookup(refs[r.await].v))
                /\ entryLog' = Append(log, RunEntry(m.hr.i, r.await, now))
                /\ timer' = withTimeoutTimer(now)
           ELSE /\ rpc' = "done" /\ idx' = 0
                /\ job' = [kind |-> "render", arg |-> JsArray(<<>>), item |-> m.hr.i, h |-> h]
                /\ lookups' = lks
                /\ entryLog' = log
                /\ timer' = NoTimer
        /\ UNCHANGED <<now, names, result, doc, failing, selection, scans,
                       collectVars, targetVars, renderVars>>

\* 'ui-generate-all' over the cache an earlier export left behind
RunGenerateAll(h, given) ==
    /\ Free(h) /\ nreq = 0
    /\ LET fmt == IF given # "none" THEN given
                  ELSE IF scanFormat # "null" THEN scanFormat ELSE "md"
           m == Fresh("ui-generate-all", fmt)
           m0 == streamGenerateAll(PostM([m EXCEPT !.busy = TRUE], <<Busy(TRUE)>>))
       IN  \E r \in {IF m0.hr.pc = "gen" THEN RunFrom(m0, 1) ELSE [m |-> m0, await |-> 0]} :
              CommitRun(h, r, TRUE, lookups, entryLog)

\* the awaited wrapper settles (how: "value", "rejected", "timeout"): the
\* render goes on with the next reference
RunResume(how, lks) ==
    LET cur == Len(entryLog)
        log == [entryLog EXCEPT ![cur].settledAt = now, ![cur].via = how]
    IN  \E r \in {RunFrom(Machine(job.h), idx + 1)} : CommitRun(job.h, r, FALSE, lks, log)

\* a late outcome of a lookup whose wrapper was settled by its timer
RunOrphan(lks) ==
    /\ lookups' = lks
    /\ UNCHANGED <<now, job, rpc, idx, names, timer, entryLog, result,
                   collectVars, handlerVars, targetVars, renderVars>>

\* the host fulfils lookup i
RunFulfils(i) ==
    /\ lookups[i].state = "pending"
    /\ LET lks == [lookups EXCEPT ![i].state = "fulfilled"]
       IN  IF rpc = "await" /\ i = Len(lookups) /\ entryLog[i].via = "pending"
           THEN RunResume("value", lks)
           ELSE RunOrphan(lks)

\* the host rejects lookup i
RunRejects(i) ==
    /\ lookups[i].state = "pending"
    /\ LET lks == [lookups EXCEPT ![i].state = "rejected"]
       IN  IF rpc = "await" /\ i = Len(lookups) /\ entryLog[i].via = "pending"
           THEN RunResume("rejected", lks)
           ELSE RunOrphan(lks)

\* the timer of the awaited wrapper is due
TimerDue == rpc = "await" /\ timer.armed /\ now >= timer.deadline

\* the timer of the awaited wrapper fires; the lookup stays pending
RunTimerFires ==
    /\ TimerDue
    /\ RunResume("timeout", lookups)

\* time passes while a wrapper is awaited
RunTick ==
    /\ rpc = "await" /\ timer.armed /\ now < timer.deadline
    /\ now' = Min(now + TickMs, timer.deadline)
    /\ UNCHANGED <<job, rpc, idx, names, timer, lookups, entryLog, result,
                   collectVars, handlerVars, targetVars, renderVars>>

InitRun ==
    /\ CollectIdle /\ ResolveIdle /\ TargetIdle /\ RenderIdle
    /\ busy = FALSE /\ scanAllowed = FALSE /\ scanFormat = "null"
    /\ scanCache \in UNION {[1..k -> RunTargets] : k \in 0..MaxSets}
    /\ \A i, j \in 1..Len(scanCache) : i # j => scanCache[i] # scanCache[j]
    /\ doc = scanCache /\ failing = {} /\ selection = 0
    /\ hs = [h \in Slots |-> NoHandler]
    /\ posted = [h \in Slots |-> <<>>]
    /\ scans = [h \in Slots |-> <<>>]
    /\ nreq = 0

NextRun ==
    \/ \E h \in Slots, given \in Formats \cup {"none"} : RunGenerateAll(h, given)
    \/ \E i \in 1..Len(lookups) : RunFulfils(i)
    \/ \E i \in 1..Len(lookups) : RunRejects(i)
    \/ RunTimerFires
    \/ RunTick

SpecRun == InitRun /\ [][NextRun]_vars

\* a step of RunTimerFires, told from the two states it joins
TimerFired == TimerDue /\ entryLog'[Len(entryLog)].via = "timeout"

\* WF_vars(RunTimerFires), with ENABLED <<RunTimerFires>>_vars written as the
\* guard of the action: a timer that is due does fire
TimerFairness == []<>(~TimerDue) \/ []<><<TimerFired>>_vars

\* timers fire when due and time passes; the host owes no completion
SpecRunFair == SpecRun /\ WF_vars(RunTick) /\ TimerFairness

\* ---- sequential processing
\* the gen-tick messages h has posted
GenTicks(h) == SelectSeq(posted[h], LAMBDA msg : msg.type = "gen-tick")

\* the wrappers that are awaited: issued and not yet settled
AwaitedEntries == {e \in 1..Len(entryLog) : entryLog[e].via = "pending"}

\* C33: in a generation run the tick of pass i+1 is posted and the lookups of
\* pass i+1 are issued only once the outcome of pass i is recorded; a lookup
\* is issued only after the one before it has completed, failed or timed
\* out, so at most one lookup of the run is awaited at any time.
C33_Sequential ==
    /\ \A h \in Slots :
          hs[h].kind = "ui-generate-all" =>
              /\ \A t \in 1..Len(GenTicks(h)) :
                    /\ GenTicks(h)[t].index = t
                    /\ Len(hs[h].parts) >= t - 1
              /\ \A e \in 1..Len(entryLog) :
                    /\ Len(hs[h].parts) >= entryLog[e].item - 1
                    /\ Len(GenTicks(h)) >= entryLog[e].item
    /\ \A a, b \in 1..Len(entryLog) :
          a < b => /\ entryLog[a].via \in {"value", "rejected", "timeout"}
                   /\ entryLog[a].settledAt <= entryLog[b].issuedAt
                   /\ <<entryLog[a].item, entryLog[a].ref>> # <<entryLog[b].item, entryLog[b].ref>>
                   /\ entryLog[a].item <= entryLog[b].item
    /\ Cardinality(AwaitedEntries) <= 1
    /\ (rpc = "await") = (AwaitedEntries # {})

\* C33 witness: the second pass awaits a lookup while a lookup of the first
\* pass, given up at its timeout, is still pending at the host
C33_Witness ==
    /\ rpc = "await"
    /\ entryLog[Len(entryLog)].item = 2
    /\ \E a \in 1..Len(entryLog) :
          /\ entryLog[a].item = 1 /\ entryLog[a].via = "timeout"
          /\ lookups[a].state = "pending"
    /\ \E a, b \in 1..Len(entryLog) :
          a < b /\ entryLog[a].item = 1 /\ entryLog[b].item = 1

\* ---- orphaned lookups
\* in this step lookup i completes or fails after its wrapper was settled by
\* the timer
LateOutcome(i) ==
    /\ entryLog[i].via = "timeout"
    /\ lookups[i].state = "pending"
    /\ lookups'[i].state # "pending"

\* C34: once the timer has settled a wrapper as unresolved, a later outcome
\* of its lookup changes nothing but the lookup itself: not the value
\* returned, the names gathered or the position of the caller; a wrapper
\* settles once, and a value once returned stays.
C34_OrphanDiscarded ==
    [][ /\ \A i \in 1..Len(lookups) :
              LateOutcome(i) =>
                  /\ UNCHANGED <<job, rpc, idx, names, timer, entryLog, result>>
                  /\ Len(lookups') = Len(lookups)
        /\ \A i \in 1..Len(entryLog) :
              entryLog[i].via # "pending" =>
                  /\ Len(entryLog') >= i
                  /\ entryLog'[i] = entryLog[i]
        /\ rpc = "done" => UNCHANGED <<rpc, result, names>> ]_vars

\* C34 witness: the first of two preferred entries was given up at the
\* timeout and its lookup completed afterwards with node "1" (named "a"); the
\* list returned holds the name of the second entry only
C34_Witness ==
    /\ job.kind = "preferred" /\ rpc = "done"
    /\ Len(entryLog) = 2
    /\ entryLog[1].via = "timeout" /\ lookups[1].state = "fulfilled"
    /\ lookups[1].id = <<"1">>
    /\ entryLog[2].via = "value"
    /\ result.v = <<<<"b">>>>

\* ---- termination
\* the log entries of pass i
PassEntries(i) == {e \in 1..Len(entryLog) : entryLog[e].item = i}

\* the time pass i has taken so far: from its first lookup to the settlement
\* of its last one, or to now while that one is awaited
PassTime(i) ==
    LET first == CHOOSE e \in PassEntries(i) : \A f \in PassEntries(i) : e <= f
        last == CHOOSE e \in PassEntries(i) : \A f \in PassEntries(i) : f <= e
    IN  (IF entryLog[last].via = "pending" THEN now ELSE entryLog[last].settledAt)
        - entryLog[first].issuedAt

RunStarted == \E h \in Slots : hs[h].kind = "ui-generate-all"

RunCompleted ==
    /\ busy = FALSE
    /\ \E h \in Slots :
          /\ hs[h].kind = "ui-generate-all" /\ hs[h].pc = "done"
          /\ Len(hs[h].parts) = Len(hs[h].sets)
          /\ posted[h][Len(posted[h]) - 1].type = "gen-complete"
          /\ posted[h][Len(posted[h])] = Busy(FALSE)

\* a pass over a target with k references awaits at most k lookups and takes
\* at most k timeouts
PassBound ==
    \A h \in Slots : \A i \in 1..Len(hs[h].sets) :
        (hs[h].kind = "ui-generate-all" /\ PassEntries(i) # {}) =>
            LET k == Len(RenderRefs(hs[h].sets[i], hs[h].fmt))
            IN  /\ Cardinality(PassEntries(i)) <= k
                /\ PassTime(i) <= k * NODE_RESOLVE_TIMEOUT_MS

\* C35: a render of a target with k references awaits at most k lookups and
\* takes at most k timeouts; and, whether the lookups complete or not, a
\* generation run over the cached sets ends with gen-complete and busy clear.
C35_RenderTermination == []PassBound /\ (RunStarted ~> RunCompleted)

\* C35 witness: two sets with three lookups between them; no lookup ever
\* completed, the run ended after three timeouts
C35_Witness ==
    /\ RunCompleted
    /\ Len(entryLog) = 3
    /\ \A e \in 1..3 : entryLog[e].via = "timeout" /\ lookups[e].state = "pending"
    /\ now = 3 * NODE_RESOLVE_TIMEOUT_MS

\* ================================================================ Stanzas
\* The stanza toMarkdownTarget writes for a property, on definitions with
\* every form of default and preferred list the loop of the renderer tells
\* apart.

SwapShapes == {
    RenderShape("INSTANCE_SWAP", TRUE, JsString(<<"1">>),
                Preferred(<<JsString(<<"1">>), JsString(<<"3">>)>>), Undefined),
    RenderShape("INSTANCE_SWAP", TRUE, JsString(<<"9">>),
                Preferred(<<JsString(<<"9">>)>>), Undefined),
    RenderShape("INSTANCE_SWAP", TRUE, JsString(<<"4">>),
                Preferred(<<JsString(<<"2">>), JsObject("id", <<"1">>)>>), Undefined),
    RenderShape("INSTANCE_SWAP", TRUE, JsString(<<"8">>), Preferred(<<>>), Undefined),
    RenderShape("INSTANCE_SWAP", TRUE, JsString(<<>>), NoPreferred, Undefined),
    RenderShape("INSTANCE_SWAP", TRUE, JsBool(TRUE), NoPreferred, Undefined),
    RenderShape("INSTANCE_SWAP", FALSE, Undefined, NoPreferred, Undefined) }

ValueShapes == {
    RenderShape("BOOLEAN", TRUE, JsBool(TRUE), NoPreferred, Undefined),
    RenderShape("BOOLEAN", TRUE, JsBool(FALSE), NoPreferred, Undefined),
    RenderShape("BOOLEAN", TRUE, JsString(<<"t">>), NoPreferred, Undefined),
    RenderShape("BOOLEAN", FALSE, Undefined, NoPreferred, Undefined),
    RenderShape("TEXT", TRUE, JsString(<<"t">>), NoPreferred, Undefined),
    RenderShape("TEXT", TRUE, JsString(<<>>), NoPreferred, Undefined),
    RenderShape("TEXT", TRUE, JsString(<<" ">>), NoPreferred, Undefined),
    RenderShape("TEXT", TRUE, JsNull, NoPreferred, Undefined),
    RenderShape("TEXT", FALSE, Undefined, NoPreferred, Undefined),
    RenderShape("NUMBER", TRUE, JsNumber(0), NoPreferred, Undefined),
    RenderShape("NUMBER", TRUE, JsNumber(12), NoPreferred, Undefined),
    RenderShape("NUMBER", FALSE, Undefined, NoPreferred, Undefined) }

\* one property of any of the shapes, or a value property followed by a swap
StanzaDefs ==
    {<<RawDef(KeyX, r)>> : r \in SwapShapes \cup ValueShapes}
    \cup {<<RawDef(KeyA, r), RawDef(KeyX, q)>> : r \in ValueShapes, q \in SwapShapes}

StanzaTargets ==
    {ComponentNode(DefsObject(d)) : d \in StanzaDefs}
    \cup {ComponentSetNode(DefsObject(d), <<ComponentNode(NoDefs)>>) : d \in StanzaDefs}

InitStanza ==
    /\ node \in StanzaTargets /\ collected = NoResult
    /\ ResolveIdle /\ HandlersIdle /\ TargetIdle /\ RenderIdle

SpecStanza == InitStanza /\ [][NextRender]_vars

\* the lines of stanza p of a textual document after its title line
StanzaBody(md, p) ==
    LET lines == SplitOn(md, "\n", <<>>)
    IN  Tail(Stanzas(SubSeq(lines, 8, Len(lines)), <<>>)[p])

\* the lookup of reference ref is answered with a node that has a name
Resolves(ref, lost) ==
    /\ ref.t = "string" /\ ref.v \in NodeIds
    /\ ref.v \notin lost /\ NodeName(ref.v) # <<>>

\* the names the references refs resolve to, in order, each name once
RECURSIVE ResolvedNames(_, _, _)
ResolvedNames(refs, lost, acc) ==
    IF refs = <<>> THEN acc
    ELSE LET ref == extractNodeIdFromPreferred(Head(refs))
             name == NodeName(ref.v)
         IN  ResolvedNames(Tail(refs), lost,
                 IF Resolves(ref, lost) /\ \A i \in 1..Len(acc) : acc[i] # name
                 THEN Append(acc, name) ELSE acc)

\* the preferred line of an InstanceSwap stanza
PreferredLines(d, lost) ==
    LET found == IF IsArray(d.preferredValuesRaw)
                 THEN ResolvedNames(d.preferredValuesRaw.v, lost, <<>>) ELSE <<>>
    IN  IF Len(found) > 0
        THEN <<<<"Preferred Instances (">> \o NumStr(Len(found)) \o <<"): ">>
               \o JoinWith(found, ", ")>>
        ELSE IF d.preferredValuesCount.t = "number"
        THEN <<<<"Preferred Instances (">> \o NumStr(d.preferredValuesCount.v) \o <<")">>>>
        ELSE <<>>

\* the InstanceSwap stanzas of every textual run are the default line chosen
\* by rawShown followed by the preferred line
SwapStanzas(rawShown(_)) ==
    \A i \in 1..Len(render.md) :
        LET run == render.md[i]
        IN  \A p \in 1..Len(run.order) :
                LET d == collected.defs[run.order[p]]
                IN  d.type = "INSTANCE_SWAP" =>
                        StanzaBody(run.out, p) =
                            (IF Resolves(d.defaultValue, run.lost)
                             THEN <<<<"Default: ">> \o NodeName(d.defaultValue.v)>>
                             ELSE IF rawShown(d.defaultValue)
                             THEN <<<<"Default: ">> \o d.defaultValue.v>>
                             ELSE <<>>)
                            \o PreferredLines(d, run.lost)

PlainString(v) == v.t = "string"

NonEmptyString(v) == v.t = "string" /\ Len(v.v) > 0

\* C36 as stated: the stanza of an InstanceSwap property has a default line
\* with the resolved name if the default resolved, otherwise with the raw
\* reference if it is a plain string, otherwise none; then one line with the
\* number of resolved preferred names and the names comma-joined in order if
\* at least one resolved, otherwise a count-only line if a preferred count
\* is known, otherwise no preferred line.
C36_SwapStanzaAsStated == SwapStanzas(PlainString)

\* C36 (amended): as above, with the raw reference shown only if it is a
\* plain string that is not empty.
C36_SwapStanza == SwapStanzas(NonEmptyString)

\* a textual run on a property whose default is a node without a name and
\* whose first preferred lookup was answered and second was lost: the raw
\* reference is the default and one name is listed
C36_Witness ==
    \E i \in 1..Len(render.md) :
        LET run == render.md[i]
        IN  /\ run.lost = {<<"1">>}
            /\ Len(run.order) = 1
            /\ collected.defs[run.order[1]].type = "INSTANCE_SWAP"
            /\ StanzaBody(run.out, 1) =
                   << <<"Default: ", "4">>, <<"Preferred Instances (", "1", "): ", "b">> >>

\* a string of spaces, the empty string included
Blank(text) == \A i \in 1..Len(text) : text[i] = " "

\* C37: the stanza of a Boolean property has the line "Values: True / False"
\* and then a default line only if its default is a boolean; the stanza of a
\* Text or Number property has a default line only if a default is present
\* and its stringified form is neither empty nor whitespace only.
C37_ValueStanza ==
    \A i \in 1..Len(render.md) :
        LET run == render.md[i]
        IN  \A p \in 1..Len(run.order) :
                LET d == collected.defs[run.order[p]]
                    body == StanzaBody(run.out, p)
                    default == <<<<"Default: ">> \o ToStr(d.defaultValue)>>
                IN  /\ d.type = "BOOLEAN" =>
                          body = <<<<"Values: True / False">>>>
                                 \o (IF d.defaultValue.t = "boolean" THEN default ELSE <<>>)
                    /\ d.type \in {"TEXT", "NUMBER"} =>
                          body = IF /\ d.defaultValue.t \notin {"undefined", "null"}
                                    /\ ~Blank(ToStr(d.defaultValue))
                                 THEN default ELSE <<>>

\* ================================================================ Flags
\* a handler of one of the kinds has started and has not finished
InProgress(kinds) == \E h \in Slots : Running(h) /\ hs[h].kind \in kinds

\* C38: in every reachable state __busy is set only while a ui-scan,
\* ui-generate-all or export handler is in progress and __scanAllowed only
\* while an export handler is in progress; when no handler is in progress
\* both flags are clear.
C38_FlagsNotStuck ==
    /\ busy => InProgress({"ui-scan", "ui-generate-all", "export"})
    /\ scanAllowed => InProgress({"export"})
    /\ Quiet => ~busy /\ ~scanAllowed

\* an export and a ui-scan that was let in while the export was suspended
\* have both set __busy and have both ended: no handler is in progress and
\* the flags are clear
C38_Witness ==
    /\ Quiet /\ ~busy /\ ~scanAllowed
    /\ \E h, g \in Slots :
          /\ hs[h].kind = "export" /\ hs[h].pc = "done"
          /\ hs[g].kind = "ui-scan" /\ hs[g].pc = "done"
          /\ Head(posted[g]) = Busy(TRUE)
          /\ posted[h][Len(posted[h])] = Busy(FALSE)

\* ================================================================ Edits
\* The document changes between two host callbacks: the user adds a component
\* set or deletes the last one while the first request, an export, is
\* suspended and before the next request arrives.  Within one
\* callback and the continuations it releases the document does not change,
\* so the scan of streamScan, its write of __exportScanCache and the read of
\* the cache at the head of streamGenerateAll see one document (LoadResolves).
DocEdit ==
    /\ nreq = 1
    /\ \E h \in Slots : Running(h) /\ hs[h].kind = "export"
    /\ \E k \in 0..MaxSets :
          /\ k \in {Len(doc) - 1, Len(doc) + 1}
          /\ doc' = [i \in 1..k |-> i]
    /\ UNCHANGED <<busy, scanAllowed, scanCache, scanFormat, failing, selection,
                   hs, posted, scans, nreq>>
    /\ UNCHANGED <<collectVars, resolveVars, targetVars, renderVars>>

NextEdit ==
    \/ \E h \in Slots, fmt \in Formats : Export(h, fmt)
    \/ \E h \in Slots, fmt \in Formats : UiScan(h, fmt)
    \/ \E h \in Slots : LoadResolves(h)
    \/ \E h \in Slots : LoadRejects(h)
    \/ \E h \in Slots : ItemSettles(h)
    \/ DocEdit

SpecEdit == Init /\ [][NextEdit]_vars

\* the messages of one type that h has posted, in order
PostedOf(h, type) == SelectSeq(posted[h], LAMBDA msg : msg.type = type)

\* a tick without its type: index, total and name
TickData(msg) == [index |-> msg.index, total |-> msg.total, name |-> msg.name]

TicksOf(h, type) ==
    LET ticks == PostedOf(h, type)
    IN  [k \in 1..Len(ticks) |-> TickData(ticks[k])]

\* C39: in every export request the targets of the generation phase are the
\* targets its own scan phase discovered: gen-start carries the total of
\* scan-start, the gen-ticks posted so far are the first scan-ticks with the
\* same index, total and name, and all of them once gen-complete is posted,
\* whatever other requests have written to the scan cache meanwhile.
C39_SameTargets ==
    \A h \in Slots :
        hs[h].kind = "export" =>
            /\ \A g \in 1..Len(PostedOf(h, "gen-start")) :
                  /\ Len(PostedOf(h, "scan-start")) = 1
                  /\ PostedOf(h, "gen-start")[g].total = PostedOf(h, "scan-start")[1].total
            /\ IsPrefix(TicksOf(h, "gen-tick"), TicksOf(h, "scan-tick"))
            /\ PostedOf(h, "gen-complete") # <<>> =>
                  TicksOf(h, "gen-tick") = TicksOf(h, "scan-tick")

\* an export over two targets has ended; while it was generating, a set was
\* deleted and another request's scan left a shorter list in the cache
C39_Witness ==
    \E h \in Slots :
        /\ hs[h].kind = "export" /\ hs[h].pc = "done"
        /\ Len(TicksOf(h, "gen-tick")) = 2
        /\ PostedOf(h, "gen-complete") # <<>>
        /\ scanCache = <<1>>

====
